---- MODULE Spec2Model ----
(***************************************************************************)
(* Conversation orchestration of the voice platform: the in-memory        *)
(* VoiceOrchestrator, the telephony webhook chain (/voice, /gather,       *)
(* /status) with its module-level activeCalls registry, the calls and     *)
(* sessions REST end routes, and the socket transport.                    *)
(*                                                                         *)
(* Every async handler is split at its awaits: one action per             *)
(* continuation, so handlers of different requests interleave exactly     *)
(* where the Node event loop lets them.                                    *)
(***************************************************************************)
EXTENDS Integers, Sequences, FiniteSets, Bags, TLC

\* ---------------------------------------------------------------- bounds
\* number of requests (webhooks, REST calls, socket events) a run accepts
MaxReq == 2
\* the same for the runs of the socket transport alone
MaxWsReq == 2
\* number of socket messages a run of the streaming transport accepts
MaxStreamReq == 1
\* number of webhooks a run of the call's callbacks accepts
MaxCbReq == 2
\* number of requests a run of both transports side by side accepts
MaxAllReq == 1
\* number of end requests a run of the end transitions accepts, and the last
\* reading of the clock in such a run
MaxEndReq == 2
MaxNow == 2
\* number of stream messages a run of the restarted stream accepts
MaxRestartReq == 2
\* number of webhooks a run of two interleaved calls accepts
MaxIsoReq == 2
\* number of executeTool invocations a run of the tool service accepts
MaxToolReq == 2
\* number of password reset requests a run of the auth service accepts
MaxAuthReq == 2
\* number of requests a run of the outbound calls accepts
MaxOutReq == 2

\* ----------------------------------------------------------------- texts
\* A text is a sequence of one-character strings; fixed phrases of the
\* program are one-element sequences holding the whole phrase.
LowerChar(ch) ==
  CASE ch = "B" -> "b"
    [] ch = "Y" -> "y"
    [] ch = "E" -> "e"
    [] ch = "H" -> "h"
    [] OTHER -> ch

toLowerCase(s) == [i \in 1..Len(s) |-> LowerChar(s[i])]

includes(s, p) ==
  \E i \in 0..(Len(s) - Len(p)) : SubSeq(s, i + 1, i + Len(p)) = p

\* a JavaScript string is falsy exactly when it is empty (or absent)
Truthy(s) == Len(s) > 0

NoText == <<>>
TxtHi == <<"h", "i">>
TxtBye == <<"H", "i", "B", "y", "E">>
TxtOk == <<"o", "k">>
TxtHello == <<"H", "e", "l", "l", "o">>

SayNotConfigured == <<"Sorry, this number is not configured. Please try again later.">>
SayVoiceError == <<"An error occurred. Please try again.">>
SayRepeat == <<"I didn't catch that. Could you please repeat?">>
SayExpired == <<"Session expired. Please call again.">>
SayGatherError == <<"An error occurred.">>

\* req.body.SpeechResult: absent, or a string (possibly empty)
SpeechResults ==
  { [present |-> FALSE, text |-> NoText],
    [present |-> TRUE, text |-> NoText],
    [present |-> TRUE, text |-> TxtHi],
    [present |-> TRUE, text |-> TxtBye] }

\* texts a socket client sends in user-message
UserTexts == {TxtHi, TxtBye}

\* String.prototype.trim
RECURSIVE trim(_)
trim(s) ==
  IF s = << >> THEN s
  ELSE IF Head(s) = " " THEN trim(Tail(s))
  ELSE IF s[Len(s)] = " " THEN trim(SubSeq(s, 1, Len(s) - 1))
  ELSE s

TxtBlank == <<" ">>
\* transcripts the transcription provider returns (live or pre-recorded)
Transcripts == {NoText, TxtBlank, TxtHi}

\* completion.choices[0].message.content as the provider may return it
Completions == {NoText, TxtOk}

\* ------------------------------------------------------------ assistants
\* rows of the assistants table (configuration, not changed by this model)
Assistants ==
  [ A1 |-> [id |-> "A1", system_prompt |-> <<"sys1">>,
            first_message |-> TxtHello,
            end_call_phrases |-> << <<"b", "Y", "e">> >>,
            model_provider |-> "openai", voice_provider |-> "elevenlabs"],
    A2 |-> [id |-> "A2", system_prompt |-> <<"sys2">>,
            first_message |-> NoText,
            end_call_phrases |-> << >>,
            model_provider |-> "openai", voice_provider |-> "openai"] ]

AssistantIds == DOMAIN Assistants
\* assistant_id query parameter of /voice: absent, a known id, an unknown id
AssistantParams == {"", "A1", "A2", "A9"}

\* phone_numbers rows with status 'active': number -> assistant_id
PhoneNumbers == [ n1 |-> "A2" ]
ToNumbers == {"n1", "n0"}

CallSids == {"CA1"}

\* CallStatus values the provider reports
CallStatuses == {"in-progress", "completed", "failed", "busy", "no-answer"}
Terminal == {"completed", "failed", "busy", "no-answer"}

\* ----------------------------------------------------------------- TwiML
Verb(v, t, a) == [verb |-> v, text |-> t, action |-> a]

NoGather == [present |-> FALSE, action |-> ""]
\* a gather whose action URL lacks the call id (C12 depends on the gather
\* below carrying it)
GatherNoSid(sid) == [present |-> TRUE, action |-> ""]

\* gather: { input: ['speech'], action: .../gather?call_sid=<sid> }
Gather(sid) == [present |-> TRUE, action |-> sid]

\* a builder that drops the hangup flag (C11 depends on the builder below
\* honouring it)
generateTwiMLNoHangup(say, play, gather, hangup) ==
  (IF Truthy(say) THEN << Verb("Say", say, "") >> ELSE << >>)
  \o (IF Truthy(play) THEN << Verb("Play", play, "") >> ELSE << >>)
  \o (IF gather.present
        THEN << Verb("Gather", IF Truthy(say) THEN say ELSE NoText, gather.action) >>
        ELSE << >>)

\* TwilioService.generateTwiML: the verbs in document order
generateTwiML(say, play, gather, hangup) ==
  (IF Truthy(say) THEN << Verb("Say", say, "") >> ELSE << >>)
  \o (IF Truthy(play) THEN << Verb("Play", play, "") >> ELSE << >>)
  \o (IF gather.present
        THEN << Verb("Gather", IF Truthy(say) THEN say ELSE NoText, gather.action) >>
        ELSE << >>)
  \o (IF hangup THEN << Verb("Hangup", NoText, "") >> ELSE << >>)

HasVerb(m, v) == \E i \in 1..Len(m) : m[i].verb = v
\* the texts the markup speaks: top-level Say and the Say nested in Gather
Spoken(m) ==
  {m[i].text : i \in {j \in 1..Len(m) : m[j].verb = "Say"}}
  \cup {m[i].text : i \in {j \in 1..Len(m) : m[j].verb = "Gather" /\ Truthy(m[j].text)}}

\* ----------------------------------------------------------------- state
VARIABLES
  calls,        \* calls table: call_sid -> row
  sessions,     \* sessions table: sequence of rows, id = index
  messages,     \* messages table: sequence of rows in insertion order
  orch,         \* VoiceOrchestrator instances: sequence, handle = index
  activeCalls,  \* the registry: call_sid -> orchestrator handle
  conns,        \* socket connections: sequence of [orch, session, state,
                \*   live, listeners, audio, out]
  tasks,        \* bag of handler invocations suspended at an await
  resp,         \* the response sent by the step just taken (NoResp if none)
  budget,       \* number of requests still to be accepted
  voicemails,   \* voicemails table: sequence of rows in insertion order
  now,          \* the database clock read by NOW()
  tool_executions,        \* tool_executions table: rows in insertion order
  users,                  \* users table: id -> row
  password_reset_tokens,  \* password_reset_tokens table: token -> row
  refresh_tokens          \* refresh_tokens table: sequence of rows

vars == <<calls, sessions, messages, orch, activeCalls, conns, tasks, resp, budget,
          voicemails, now, tool_executions, users, password_reset_tokens,
          refresh_tokens>>

Msg(role, content) == [role |-> role, content |-> content]
Row(sid, role, content) == [session_id |-> sid, role |-> role, content |-> content]

NoSpeech == [present |-> FALSE, text |-> NoText]

NoTask ==
  [kind |-> "", pc |-> "", callSid |-> "", orch |-> 0, conn |-> 0,
   asst |-> "", text |-> NoText, reply |-> NoText, h0 |-> << >>,
   id |-> 0, tool |-> "", token |-> "", user |-> ""]

NoResp ==
  [handler |-> "", callSid |-> "", speech |-> NoSpeech,
   status |-> "", http |-> 0, markup |-> << >>, type |-> "",
   orch |-> 0, conn |-> 0, outcome |-> "", text |-> NoText,
   reply |-> NoText, h0 |-> << >>, prev |-> "", ap |-> "", to |-> "",
   id |-> 0, tool |-> "", token |-> ""]

\* bcrypt.hash: the hash stored for a password
hashPassword(password) == << "bcrypt" >> \o password

\* passwords a client may choose
Passwords == { <<"p", "1">>, <<"p", "2">> }

\* no tool has been executed; one user with a password and a refresh token,
\* who was issued reset token T1 (valid for the whole run) and, long before,
\* reset token T2 (expired)
ServicesIdle ==
  /\ tool_executions = << >>
  /\ users = [u \in {"u1"} |-> [password_hash |-> hashPassword(<<"p", "0">>),
                                 updated_at |-> 0]]
  /\ password_reset_tokens =
       [k \in {"T1", "T2"} |->
          [user_id |-> "u1", used_at |-> 0,
           expires_at |-> IF k = "T1" THEN 99 ELSE 0]]
  /\ refresh_tokens = << [user_id |-> "u1", revoked_at |-> 0] >>

\* the server has just started: empty tables, empty registry
InitState ==
  /\ calls = [c \in {} |-> 0]
  /\ sessions = << >>
  /\ messages = << >>
  /\ orch = << >>
  /\ activeCalls = [c \in {} |-> 0]
  /\ conns = << >>
  /\ tasks = EmptyBag
  /\ resp = NoResp
  /\ voicemails = << >>
  /\ now = 1
  /\ ServicesIdle

\* ------------------------------------------------------------- utilities
\* a removal that empties the map (C36 depends on delete removing one key)
DelAll(f, k) == [x \in {} |-> f[x]]

Put(f, k, v) == [x \in DOMAIN f \cup {k} |-> IF x = k THEN v ELSE f[x]]
Del(f, k) == [x \in DOMAIN f \ {k} |-> f[x]]

Suspend(t) == tasks' = tasks (+) SetToBag({t})
Resume(t, u) == tasks' = (tasks (-) SetToBag({t})) (+) SetToBag({u})
Finish(t) == tasks' = tasks (-) SetToBag({t})
Pending == BagToSet(tasks)

Accept == budget > 0 /\ budget' = budget - 1

\* Array.prototype.unshift: what the history would be if entries were put
\* in front (the order of C3 depends on push not behaving like this)
unshift(h, m) == << m >> \o h

\* a store that overwrites the latest entry after the system prompt (C24
\* depends on push only adding an entry)
replaceLast(h, m) == IF Len(h) > 1 THEN [h EXCEPT ![Len(h)] = m] ELSE Append(h, m)

\* Array.prototype.push
push(h, m) == Append(h, m)

\* new VoiceOrchestrator(sessionId, assistant): history seeded with the
\* system prompt
NewOrchestrator(sid, aid) ==
  [sessionId |-> sid, assistant |-> aid,
   history |-> push(<< >>, Msg("system", Assistants[aid].system_prompt))]

\* INSERT INTO calls: status 'initiated', nothing recorded yet; the webhook
\* stores Direction || 'inbound'
NewCall(aid) ==
  [status |-> "initiated", assistant_id |-> aid, end_reason |-> "",
   recording_url |-> "", transcription |-> "", ended_at |-> 0,
   direction |-> "inbound"]

\* the row makeCall stores under the call id the provider returned
OutboundCall(aid) == [NewCall(aid) EXCEPT !.direction = "outbound"]

\* a calls table without the UNIQUE constraint on call_sid (C35 depends on the
\* constraint below)
ViolatesUniqueNever(c, aid) == FALSE

\* calls.call_sid is UNIQUE: the INSERT of the call-start webhook, reached
\* once an assistant resolved, fails when a row for the call id exists
ViolatesUnique(c, aid) == aid # "" /\ c \in DOMAIN calls

\* INSERT INTO sessions: status takes the column default
NewSession(aid, callId, type) ==
  [status |-> "active", assistant_id |-> aid, call_id |-> callId,
   session_type |-> type, ended_at |-> 0]

\* a writer that flips the status instead of setting it (C4 depends on the
\* UPDATE below not behaving like this)
FlipRow(row) ==
  [row EXCEPT !.status = IF @ = "ended" THEN "active" ELSE "ended"]

\* UPDATE sessions SET status = 'ended', ended_at = NOW() (every writer of
\* sessions.status); ended_at 0 stands for NULL
EndRow(row) == [row EXCEPT !.status = "ended", !.ended_at = now]

\* a socket connection: its orchestrator and session, the socket's state,
\* the orchestrator's DeepgramService (liveConnection set, the connection it
\* refers to was closed by the provider, number of 'transcript' listeners,
\* audio forwarded whose result is outstanding) and the messages delivered to
\* the client so far
NewConn(o, s, st) ==
  [orch |-> o, session |-> s, state |-> st,
   live |-> FALSE, dropped |-> FALSE, listeners |-> 0, audio |-> FALSE,
   out |-> << >>]

Out(type, text) == [type |-> type, text |-> text]

\* ws.send(JSON.stringify({type, text})): delivered while the socket is open
Send(cs, k, type, text) ==
  IF cs[k].state \in {"greeting", "open"}
    THEN [cs EXCEPT ![k].out = Append(@, Out(type, text))]
    ELSE cs

\* the state /voice leaves behind for call CA1 answered by assistant aid:
\* Call and Session inserted, orchestrator registered, greeting delivered
CallEstablished(aid) ==
  LET fm == Assistants[aid].first_message
      o == NewOrchestrator(1, aid)
  IN
    /\ calls = [c \in {"CA1"} |->
                 NewCall(aid)]
    /\ sessions = << NewSession(aid, "CA1", "phone") >>
    /\ messages = IF Truthy(fm) THEN << Row(1, "assistant", fm) >> ELSE << >>
    /\ orch = << IF Truthy(fm)
                   THEN [o EXCEPT !.history = push(@, Msg("assistant", fm))]
                   ELSE o >>
    /\ activeCalls = [c \in {"CA1"} |-> 1]
    /\ conns = << >>
    /\ tasks = EmptyBag
    /\ resp = NoResp
    /\ voicemails = << >>
    /\ now = 1
    /\ ServicesIdle

\* the state the sessions route POST / leaves behind: one web session
SessionCreated(aid) ==
  /\ calls = [c \in {} |-> 0]
  /\ sessions = << NewSession(aid, "", "web") >>
  /\ messages = << >>
  /\ orch = << >>
  /\ activeCalls = [c \in {} |-> 0]
  /\ conns = << >>
  /\ tasks = EmptyBag
  /\ resp = NoResp
  /\ voicemails = << >>
  /\ now = 1
  /\ ServicesIdle

\* the state a socket connect leaves behind on that session once the
\* greeting (if any) is delivered; live: a transcription stream was started
Connected(aid, live) ==
  LET fm == Assistants[aid].first_message
      o == NewOrchestrator(1, aid)
      k == NewConn(1, 1, "open")
      greeted == IF Truthy(fm)
                   THEN << Out("connected", NoText), Out("assistant-message", fm) >>
                   ELSE << Out("connected", NoText) >>
  IN
    /\ calls = [c \in {} |-> 0]
    /\ sessions = << NewSession(aid, "", "web") >>
    /\ messages = IF Truthy(fm) THEN << Row(1, "assistant", fm) >> ELSE << >>
    /\ orch = << IF Truthy(fm)
                   THEN [o EXCEPT !.history = push(@, Msg("assistant", fm))]
                   ELSE o >>
    /\ activeCalls = [c \in {} |-> 0]
    /\ conns = << IF live
                    THEN [k EXCEPT !.live = TRUE, !.listeners = 1,
                                   !.out = greeted \o << Out("audio-stream-ready", NoText) >>]
                    ELSE [k EXCEPT !.out = greeted] >>
    /\ tasks = EmptyBag
    /\ resp = NoResp
    /\ voicemails = << >>
    /\ now = 1
    /\ ServicesIdle

\* the state user-audio-stream-start followed by user-audio-stream-end leaves
\* behind on such a connection: no live connection, the 'transcript'
\* listener still registered
StreamEnded(aid) ==
  LET fm == Assistants[aid].first_message
      o == NewOrchestrator(1, aid)
      greeted == IF Truthy(fm)
                   THEN << Out("connected", NoText), Out("assistant-message", fm) >>
                   ELSE << Out("connected", NoText) >>
  IN
    /\ calls = [c \in {} |-> 0]
    /\ sessions = << NewSession(aid, "", "web") >>
    /\ messages = IF Truthy(fm) THEN << Row(1, "assistant", fm) >> ELSE << >>
    /\ orch = << IF Truthy(fm)
                   THEN [o EXCEPT !.history = push(@, Msg("assistant", fm))]
                   ELSE o >>
    /\ activeCalls = [c \in {} |-> 0]
    /\ conns = << [NewConn(1, 1, "open") EXCEPT
                     !.listeners = 1,
                     !.out = greeted \o << Out("audio-stream-ready", NoText),
                                           Out("audio-stream-closed", NoText) >>] >>
    /\ tasks = EmptyBag
    /\ resp = NoResp
    /\ voicemails = << >>
    /\ now = 1
    /\ ServicesIdle

\* a run starts with the server just started or with one call under way
Init ==
  /\ InitState \/ \E aid \in AssistantIds : CallEstablished(aid)
  /\ budget = MaxReq

\* the status the sessions in S had before the step (for the record of the
\* response only): "ended" if one of them was ended already
PrevStatus(S) ==
  IF \E i \in S : sessions[i].status = "ended" THEN "ended"
  ELSE IF S = {} THEN "" ELSE "active"

\* a response of handler h
R(h) == [NoResp EXCEPT !.handler = h]
Silent == resp' = NoResp

\* ------------------------------------------------------ telephony bridge
\* /voice, assistant lookup: by assistant_id when given, else by To
ResolveAssistant(ap, to) ==
  IF ap # ""
    THEN (IF ap \in AssistantIds THEN ap ELSE "")
    ELSE (IF to \in DOMAIN PhoneNumbers THEN PhoneNumbers[to] ELSE "")

\* /voice up to the INSERT INTO calls (call_sid is UNIQUE)
VoiceStart(c, ap, to, dbOk) ==
  /\ Accept
  /\ LET aid == ResolveAssistant(ap, to)
         r == [R("voice") EXCEPT !.callSid = c, !.ap = ap, !.to = to]
     IN
       IF ~dbOk \/ ViolatesUnique(c, aid)
         THEN /\ resp' = [r EXCEPT !.outcome = IF dbOk THEN "duplicate-call" ELSE "error",
                            !.markup = generateTwiML(SayVoiceError, NoText, NoGather, TRUE)]
              /\ UNCHANGED <<calls, tasks>>
       ELSE IF aid = ""
         THEN /\ resp' = [r EXCEPT !.outcome = "not-configured",
                            !.markup = generateTwiML(SayNotConfigured, NoText, NoGather, TRUE)]
              /\ UNCHANGED <<calls, tasks>>
       ELSE /\ calls' = Put(calls, c, NewCall(aid))
            /\ Suspend([NoTask EXCEPT !.kind = "voice", !.pc = "insertSession",
                                      !.callSid = c, !.asst = aid])
            /\ Silent
  /\ UNCHANGED <<sessions, messages, orch, activeCalls, conns, voicemails, now,
                 tool_executions, users, password_reset_tokens, refresh_tokens>>

\* /voice after INSERT INTO sessions: orchestrator created and registered,
\* getFirstMessage entered
VoiceInsertSession(t, dbOk) ==
  /\ t \in Pending
  /\ t.kind = "voice" /\ t.pc = "insertSession"
  /\ LET c == t.callSid
         aid == t.asst
         r == [R("voice") EXCEPT !.callSid = c]
     IN
       IF ~dbOk
         THEN /\ resp' = [r EXCEPT !.outcome = "error",
                            !.markup = generateTwiML(SayVoiceError, NoText, NoGather, TRUE)]
              /\ Finish(t)
              /\ UNCHANGED <<sessions, orch, activeCalls>>
       ELSE /\ sessions' = Append(sessions, NewSession(aid, c, "phone"))
            /\ orch' = Append(orch, NewOrchestrator(Len(sessions) + 1, aid))
            /\ activeCalls' = Put(activeCalls, c, Len(orch) + 1)
            /\ IF ~Truthy(Assistants[aid].first_message)
                 THEN /\ resp' = [r EXCEPT !.outcome = "ok", !.orch = Len(orch) + 1,
                                    !.markup = generateTwiML(NoText, NoText, Gather(c), FALSE)]
                      /\ Finish(t)
                 ELSE /\ Resume(t, [t EXCEPT !.pc = "saveGreeting", !.orch = Len(orch) + 1])
                      /\ Silent
  /\ UNCHANGED <<calls, messages, conns, budget, voicemails, now,
                 tool_executions, users, password_reset_tokens, refresh_tokens>>

\* reply of the handler that owns greeting task t once getFirstMessage threw
GreetingFailed(t) ==
  IF t.kind = "voice"
    THEN /\ resp' = [R("voice") EXCEPT !.callSid = t.callSid,
                       !.orch = t.orch, !.outcome = "error",
                       !.markup = generateTwiML(SayVoiceError, NoText, NoGather, TRUE)]
         /\ UNCHANGED conns
    ELSE /\ resp' = [R("ws-connect") EXCEPT !.conn = t.conn,
                       !.orch = t.orch, !.outcome = "error", !.type = "error"]
         \* ws.close() before any 'close' listener is registered
         /\ conns' = [Send(conns, t.conn, "error", NoText) EXCEPT
                        ![t.conn].state = "closed"]

\* getFirstMessage after saveMessage('assistant', first_message)
GreetingSave(t, dbOk) ==
  /\ t \in Pending
  /\ t.pc = "saveGreeting"
  /\ LET o == t.orch
         fm == Assistants[orch[o].assistant].first_message
     IN
       IF ~dbOk
         THEN /\ GreetingFailed(t)
              /\ Finish(t)
              /\ UNCHANGED <<messages, orch>>
         ELSE /\ messages' = Append(messages, Row(orch[o].sessionId, "assistant", fm))
              /\ orch' = [orch EXCEPT ![o].history = push(@, Msg("assistant", fm))]
              /\ Resume(t, [t EXCEPT !.pc = "synthGreeting"])
              /\ Silent
              /\ UNCHANGED conns
  /\ UNCHANGED <<calls, sessions, activeCalls, budget, voicemails, now,
                 tool_executions, users, password_reset_tokens, refresh_tokens>>

\* getFirstMessage after generateAudio, and the handler's reply
GreetingSynth(t, ok) ==
  /\ t \in Pending
  /\ t.pc = "synthGreeting"
  /\ LET o == t.orch
         c == t.callSid
         k == t.conn
         fm == Assistants[orch[o].assistant].first_message
     IN
       IF ~ok
         THEN GreetingFailed(t)
       ELSE IF t.kind = "voice"
         THEN /\ resp' = [R("voice") EXCEPT !.callSid = c, !.orch = o,
                            !.outcome = "ok", !.reply = fm,
                            !.markup = generateTwiML(NoText, <<"audio/first">>, Gather(c), FALSE)]
              /\ UNCHANGED conns
       ELSE /\ resp' = [R("ws-connect") EXCEPT !.conn = k, !.orch = o,
                          !.outcome = "ok", !.type = "assistant-message", !.reply = fm]
            /\ conns' = [Send(conns, k, "assistant-message", fm) EXCEPT
                           ![k].state = IF @ = "greeting" THEN "open" ELSE @]
  /\ Finish(t)
  /\ UNCHANGED <<calls, sessions, messages, orch, activeCalls, budget, voicemails, now,
                 tool_executions, users, password_reset_tokens, refresh_tokens>>

\* processUserMessage entered: runs to its first await
StartTurn(kind, c, k, o, aid, text) ==
  Suspend([NoTask EXCEPT !.kind = kind, !.pc = "saveUser",
                 !.callSid = c, !.conn = k, !.orch = o, !.asst = aid,
                 !.text = text, !.h0 = orch[o].history])

\* a test for an absent field only: SpeechResult === undefined (C9 depends
\* on the test below also catching the empty string)
SpeechAbsent(sp) == ~sp.present

\* /gather: if (!SpeechResult)
NoSpeechDetected(sp) == ~(sp.present /\ Truthy(sp.text))

\* an expiry announcement that keeps listening (C10 depends on the reply
\* below hanging up instead)
ExpiredReplyGather(c) == generateTwiML(SayExpired, NoText, Gather(c), FALSE)

\* /gather: the reply when activeCalls.get(callSid) finds nothing
ExpiredReply(c) == generateTwiML(SayExpired, NoText, NoGather, TRUE)

\* /gather up to the call of processUserMessage
GatherStart(c, sp) ==
  /\ Accept
  /\ LET r == [R("gather") EXCEPT !.callSid = c, !.speech = sp]
     IN
       IF NoSpeechDetected(sp)
         THEN /\ resp' = [r EXCEPT !.outcome = "no-speech",
                            !.markup = generateTwiML(SayRepeat, NoText, Gather(c), FALSE)]
              /\ UNCHANGED tasks
       ELSE IF c \notin DOMAIN activeCalls
         THEN /\ resp' = [r EXCEPT !.outcome = "expired", !.markup = ExpiredReply(c)]
              /\ UNCHANGED tasks
       ELSE /\ StartTurn("gather", c, 0, activeCalls[c],
                         orch[activeCalls[c]].assistant, sp.text)
            /\ Silent
  /\ UNCHANGED <<calls, sessions, messages, orch, activeCalls, conns, voicemails, now,
                 tool_executions, users, password_reset_tokens, refresh_tokens>>

\* the match without lower-casing the speech (C8 depends on the test below
\* lower-casing both sides)
shouldEndCaseSensitive(speech, endPhrases) ==
  \E i \in 1..Len(endPhrases) :
    includes(speech, toLowerCase(endPhrases[i]))

\* /gather: endPhrases.some(phrase => SpeechResult.toLowerCase().includes(phrase.toLowerCase()))
shouldEnd(speech, endPhrases) ==
  \E i \in 1..Len(endPhrases) :
    includes(toLowerCase(speech), toLowerCase(endPhrases[i]))

\* registry after a /gather turn returned
GatherCleanup(reg, c, end) == IF end THEN Del(reg, c) ELSE reg

\* the handler's continuation once processUserMessage returned
TurnReturn(t) ==
  LET c == t.callSid
      end == shouldEnd(t.text, Assistants[t.asst].end_call_phrases)
      r == [R(t.kind) EXCEPT !.callSid = c, !.conn = t.conn, !.orch = t.orch,
              !.outcome = "ok", !.text = t.text, !.reply = t.reply, !.h0 = t.h0]
  IN
    IF t.kind = "gather"
      THEN /\ activeCalls' = GatherCleanup(activeCalls, c, end)
           /\ resp' = [r EXCEPT !.speech = [present |-> TRUE, text |-> t.text],
                         !.markup = IF end
                            THEN generateTwiML(t.reply, NoText, NoGather, TRUE)
                            ELSE generateTwiML(t.reply, NoText, Gather(c), FALSE)]
           /\ UNCHANGED conns
      ELSE /\ resp' = [r EXCEPT !.type = "assistant-message"]
           /\ conns' = Send(conns, t.conn, "assistant-message", t.reply)
           /\ UNCHANGED activeCalls

\* the handler's catch once processUserMessage threw at stage
TurnThrow(t, stage) ==
  LET r == [R(t.kind) EXCEPT !.callSid = t.callSid, !.conn = t.conn,
              !.orch = t.orch, !.outcome = stage, !.text = t.text,
              !.reply = t.reply, !.h0 = t.h0]
  IN
    IF t.kind = "gather"
      THEN /\ resp' = [r EXCEPT !.speech = [present |-> TRUE, text |-> t.text],
                         !.markup = generateTwiML(SayGatherError, NoText, NoGather, TRUE)]
           /\ UNCHANGED conns
    ELSE IF t.kind = "wsstream"
      \* the transcript listener's catch only logs
      THEN /\ resp' = r
           /\ UNCHANGED conns
      ELSE /\ resp' = [r EXCEPT !.type = "error"]
           /\ conns' = Send(conns, t.conn, "error", NoText)

TurnKinds == {"gather", "wsmsg", "wsaudio", "wsstream"}

\* message.text of a socket message that has no text field: undefined, which
\* the INSERT of saveMessage binds as NULL
Undefined == << "undefined" >>

\* a content column that takes NULL (C22 depends on the column below
\* refusing it)
ViolatesNotNullNever(content) == FALSE

\* messages.content is TEXT NOT NULL: the INSERT of a NULL content fails
ViolatesNotNull(content) == content = Undefined

IsTurn(t) == t \in Pending /\ t.kind \in TurnKinds

\* processUserMessage after saveMessage('user', userMessage)
TurnSaveUser(t, dbOk) ==
  /\ IsTurn(t) /\ t.pc = "saveUser"
  /\ LET o == t.orch
     IN
       IF ~dbOk \/ ViolatesNotNull(t.text)
         THEN /\ TurnThrow(t, "save-user-failed")
              /\ Finish(t)
              /\ UNCHANGED <<messages, orch>>
         ELSE /\ messages' = Append(messages, Row(orch[o].sessionId, "user", t.text))
              /\ orch' = [orch EXCEPT ![o].history = push(@, Msg("user", t.text))]
              /\ Resume(t, [t EXCEPT !.pc = "generate"])
              /\ Silent
              /\ UNCHANGED conns
  /\ UNCHANGED <<calls, sessions, activeCalls, budget, voicemails, now,
                 tool_executions, users, password_reset_tokens, refresh_tokens>>

\* processUserMessage after generateLLMResponse and after
\* saveMessage('assistant', assistantResponse).  The generation result is only
\* held by the suspended call until the save returns, so the two
\* continuations are taken as one step.
TurnGenerate(t, ok, content, dbOk) ==
  /\ IsTurn(t) /\ t.pc = "generate"
  /\ LET o == t.orch
     IN
       IF ~ok \/ Assistants[t.asst].model_provider # "openai"
         THEN /\ TurnThrow(t, "generation-failed")
              /\ Finish(t)
              /\ UNCHANGED <<messages, orch>>
       ELSE IF ~dbOk
         THEN /\ TurnThrow([t EXCEPT !.reply = content], "save-assistant-failed")
              /\ Finish(t)
              /\ UNCHANGED <<messages, orch>>
       ELSE /\ messages' = Append(messages, Row(orch[o].sessionId, "assistant", content))
            /\ orch' = [orch EXCEPT ![o].history = push(@, Msg("assistant", content))]
            /\ Resume(t, [t EXCEPT !.pc = "synth", !.reply = content])
            /\ Silent
            /\ UNCHANGED conns
  /\ UNCHANGED <<calls, sessions, activeCalls, budget, voicemails, now,
                 tool_executions, users, password_reset_tokens, refresh_tokens>>

\* processUserMessage after generateAudio, and the handler's continuation
TurnSynth(t, ok) ==
  /\ IsTurn(t) /\ t.pc = "synth"
  /\ IF ok
       THEN TurnReturn(t)
       ELSE TurnThrow(t, "synthesis-failed") /\ UNCHANGED activeCalls
  /\ Finish(t)
  /\ UNCHANGED <<calls, sessions, messages, orch, budget, voicemails, now,
                 tool_executions, users, password_reset_tokens, refresh_tokens>>

\* /status: the statuses on which the handler cleans up
CleansUp(st) == st = "completed" \/ st = "failed"

\* /status: UPDATE calls SET status = $1 ... WHERE call_sid = $4
UpdateCallStatus(row, st) ==
  [row EXCEPT !.status = st, !.ended_at = IF st = "completed" THEN now ELSE @]

\* /status up to the session cascade
StatusUpdate(c, st, dbOk) ==
  /\ Accept
  /\ LET r == [R("status") EXCEPT !.callSid = c, !.status = st]
     IN
       IF ~dbOk
         THEN /\ resp' = [r EXCEPT !.outcome = "error", !.http = 500]
              /\ UNCHANGED <<calls, activeCalls, tasks>>
         ELSE /\ calls' = [x \in DOMAIN calls |->
                             IF x = c THEN UpdateCallStatus(calls[x], st) ELSE calls[x]]
              /\ IF CleansUp(st)
                   THEN /\ activeCalls' = Del(activeCalls, c)
                        /\ Suspend([NoTask EXCEPT !.kind = "status", !.pc = "cascade",
                                                  !.callSid = c, !.text = <<st>>])
                        /\ Silent
                   ELSE /\ resp' = [r EXCEPT !.outcome = "ok", !.http = 200]
                        /\ UNCHANGED <<activeCalls, tasks>>
  /\ UNCHANGED <<sessions, messages, orch, conns, voicemails, now,
                 tool_executions, users, password_reset_tokens, refresh_tokens>>

\* /status after UPDATE sessions ... WHERE call_id = (SELECT id FROM calls
\* WHERE call_sid = $1)
StatusCascade(t, dbOk) ==
  /\ t \in Pending
  /\ t.kind = "status" /\ t.pc = "cascade"
  /\ LET c == t.callSid
         r == [R("status") EXCEPT !.callSid = c, !.status = t.text[1]]
     IN
       IF ~dbOk
         THEN /\ resp' = [r EXCEPT !.outcome = "error", !.http = 500]
              /\ UNCHANGED sessions
         ELSE /\ sessions' = [i \in 1..Len(sessions) |->
                                IF c \in DOMAIN calls /\ sessions[i].call_id = c
                                  THEN EndRow(sessions[i]) ELSE sessions[i]]
              /\ resp' = [r EXCEPT !.outcome = "ok", !.http = 200,
                            !.prev = PrevStatus({i \in 1..Len(sessions) :
                                        c \in DOMAIN calls /\ sessions[i].call_id = c})]
  /\ Finish(t)
  /\ UNCHANGED <<calls, messages, orch, activeCalls, conns, budget, voicemails, now,
                 tool_executions, users, password_reset_tokens, refresh_tokens>>

\* ------------------------------------------------ recording callbacks
RecordingUrls == {"rec1"}
RecordingSids == {"RE1"}
TranscriptionTexts == {"tr1"}

SayThanks == <<"Thank you for your message. Goodbye.">>

\* a recording callback that also marks the call completed (C23 depends on
\* the UPDATE below setting the recording columns only)
SetRecordingCompleted(row, url) ==
  [row EXCEPT !.recording_url = url, !.status = "completed"]

\* /recording: UPDATE calls SET recording_url = $1, recording_duration = $2
SetRecording(row, url) == [row EXCEPT !.recording_url = url]

\* /recording
Recording(c, url, dbOk) ==
  /\ Accept
  /\ LET r == [R("recording") EXCEPT !.callSid = c]
     IN
       IF ~dbOk
         THEN resp' = [r EXCEPT !.outcome = "error", !.http = 500] /\ UNCHANGED calls
         ELSE /\ calls' = [x \in DOMAIN calls |->
                             IF x = c THEN SetRecording(calls[x], url) ELSE calls[x]]
              /\ resp' = [r EXCEPT !.outcome = "ok", !.http = 200]
  /\ UNCHANGED <<sessions, messages, orch, activeCalls, conns, tasks, voicemails, now,
                 tool_executions, users, password_reset_tokens, refresh_tokens>>

\* /transcription: UPDATE calls SET metadata = jsonb_set(..., '{transcription}', $1)
TranscriptionCallback(c, text, dbOk) ==
  /\ Accept
  /\ LET r == [R("transcription") EXCEPT !.callSid = c]
     IN
       IF ~dbOk
         THEN resp' = [r EXCEPT !.outcome = "error", !.http = 500] /\ UNCHANGED calls
         ELSE /\ calls' = [x \in DOMAIN calls |->
                             IF x = c THEN [calls[x] EXCEPT !.transcription = text]
                                      ELSE calls[x]]
              /\ resp' = [r EXCEPT !.outcome = "ok", !.http = 200]
  /\ UNCHANGED <<sessions, messages, orch, activeCalls, conns, tasks, voicemails, now,
                 tool_executions, users, password_reset_tokens, refresh_tokens>>

\* /voicemail: the number is looked up in phone_numbers (rows this model
\* does not change, so the lookup and the INSERT are one step); a voicemail
\* row is inserted for a known number, and the caller is thanked
Voicemail(c, to, rsid, dbOk) ==
  /\ Accept
  /\ LET r == [R("voicemail") EXCEPT !.callSid = c, !.to = to]
     IN
       IF ~dbOk
         THEN resp' = [r EXCEPT !.outcome = "error", !.http = 500]
              /\ UNCHANGED voicemails
         ELSE /\ voicemails' =
                   IF to \in DOMAIN PhoneNumbers
                     THEN Append(voicemails,
                                 [call_sid |-> c, to_number |-> to,
                                  recording_sid |-> rsid, transcription |-> ""])
                     ELSE voicemails
              /\ resp' = [r EXCEPT !.outcome = "ok", !.http = 200,
                            !.markup = generateTwiML(SayThanks, NoText, NoGather, TRUE)]
  /\ UNCHANGED <<calls, sessions, messages, orch, activeCalls, conns, tasks, now,
                 tool_executions, users, password_reset_tokens, refresh_tokens>>

\* /voicemail-transcription: UPDATE voicemails SET transcription = $1 ...
\* WHERE recording_sid = $3
VoicemailTranscription(rsid, text, dbOk) ==
  /\ Accept
  /\ LET r == R("voicemail-transcription")
     IN
       IF ~dbOk
         THEN resp' = [r EXCEPT !.outcome = "error", !.http = 500]
              /\ UNCHANGED voicemails
         ELSE /\ voicemails' = [i \in 1..Len(voicemails) |->
                                  IF voicemails[i].recording_sid = rsid
                                    THEN [voicemails[i] EXCEPT !.transcription = text]
                                    ELSE voicemails[i]]
              /\ resp' = [r EXCEPT !.outcome = "ok", !.http = 200]
  /\ UNCHANGED <<calls, sessions, messages, orch, activeCalls, conns, tasks, now,
                 tool_executions, users, password_reset_tokens, refresh_tokens>>

\* ------------------------------------------------------------- REST routes
\* calls route POST /:id/end: records the manual hangup
CallsEnd(c, dbOk) ==
  /\ Accept
  /\ LET r == [R("calls-end") EXCEPT !.callSid = c]
     IN
       IF ~dbOk
         THEN resp' = [r EXCEPT !.outcome = "error", !.http = 500] /\ UNCHANGED calls
       ELSE IF c \notin DOMAIN calls
         THEN resp' = [r EXCEPT !.outcome = "not-found", !.http = 404] /\ UNCHANGED calls
       ELSE /\ calls' = [calls EXCEPT ![c].status = "completed",
                                      ![c].ended_at = now,
                                      ![c].end_reason = "manual_hangup"]
            /\ resp' = [r EXCEPT !.outcome = "ok", !.http = 200]
  /\ UNCHANGED <<sessions, messages, orch, activeCalls, conns, tasks, voicemails, now,
                 tool_executions, users, password_reset_tokens, refresh_tokens>>

\* sessions route POST /: a web session for an existing assistant
SessionsCreate(ap, dbOk) ==
  /\ Accept
  /\ LET r == R("sessions-create")
     IN
       IF ap = ""
         THEN resp' = [r EXCEPT !.outcome = "invalid", !.http = 400] /\ UNCHANGED sessions
       ELSE IF ~dbOk
         THEN resp' = [r EXCEPT !.outcome = "error", !.http = 500] /\ UNCHANGED sessions
       ELSE IF ap \notin AssistantIds
         THEN resp' = [r EXCEPT !.outcome = "not-found", !.http = 404] /\ UNCHANGED sessions
       ELSE /\ sessions' = Append(sessions, NewSession(ap, "", "web"))
            /\ resp' = [r EXCEPT !.outcome = "ok", !.http = 201]
  /\ UNCHANGED <<calls, messages, orch, activeCalls, conns, tasks, voicemails, now,
                 tool_executions, users, password_reset_tokens, refresh_tokens>>

\* sessions route POST /:id/end
SessionsEnd(s, dbOk) ==
  /\ Accept
  /\ LET r == R("sessions-end")
     IN
       IF ~dbOk
         THEN resp' = [r EXCEPT !.outcome = "error", !.http = 500] /\ UNCHANGED sessions
       ELSE IF s \notin 1..Len(sessions)
         THEN resp' = [r EXCEPT !.outcome = "not-found", !.http = 404] /\ UNCHANGED sessions
         ELSE /\ sessions' = [sessions EXCEPT ![s] = EndRow(@)]
              /\ resp' = [r EXCEPT !.outcome = "ok", !.http = 200,
                            !.prev = PrevStatus({s})]
  /\ UNCHANGED <<calls, messages, orch, activeCalls, conns, tasks, voicemails, now,
                 tool_executions, users, password_reset_tokens, refresh_tokens>>

\* -------------------------------------------------------- socket transport
\* a validation that does not look at the assistant lookup (C28 depends on
\* the validation below looking at it)
RejectsUnlessAssistant(s, found, dbOk) == s \notin 1..Len(sessions) \/ ~dbOk

\* wss.on('connection'): no session_id, no such session, no such assistant,
\* or a query failed
Rejects(s, found, dbOk) == s \notin 1..Len(sessions) \/ ~dbOk \/ ~found

\* wss.on('connection') up to getFirstMessage; s = 0 is a missing session_id,
\* found: the SELECT of the session's assistant returned a row; the response
\* record keeps the assistant the setup obtained, if any
WsConnect(s, found, dbOk) ==
  /\ Accept
  /\ LET aid == sessions[s].assistant_id
         r == [R("ws-connect") EXCEPT
                 !.ap = IF s \in 1..Len(sessions) /\ dbOk /\ found THEN aid ELSE ""]
     IN
       IF Rejects(s, found, dbOk)
         THEN /\ resp' = [r EXCEPT !.type = "error",
                            !.outcome = IF s \in 1..Len(sessions) /\ dbOk
                                          THEN "assistant-not-found" ELSE "error"]
              /\ UNCHANGED <<orch, conns, tasks>>
         ELSE /\ orch' = Append(orch, NewOrchestrator(s, aid))
              /\ resp' = [r EXCEPT !.outcome = "ok", !.type = "connected",
                            !.orch = Len(orch) + 1, !.conn = Len(conns) + 1]
              /\ IF ~Truthy(Assistants[aid].first_message)
                   THEN /\ conns' = Append(conns,
                                      [NewConn(Len(orch) + 1, s, "open") EXCEPT
                                         !.out = << Out("connected", NoText) >>])
                        /\ UNCHANGED tasks
                   ELSE /\ conns' = Append(conns,
                                      [NewConn(Len(orch) + 1, s, "greeting") EXCEPT
                                         !.out = << Out("connected", NoText) >>])
                        /\ Suspend([NoTask EXCEPT !.kind = "connect",
                                      !.pc = "saveGreeting", !.orch = Len(orch) + 1,
                                      !.conn = Len(conns) + 1, !.asst = aid])
  /\ UNCHANGED <<calls, sessions, messages, activeCalls, voicemails, now,
                 tool_executions, users, password_reset_tokens, refresh_tokens>>

\* a listener registered before the greeting is awaited (C15 depends on
\* the registration below coming after it)
IsOpenEarly(k) == k \in 1..Len(conns) /\ conns[k].state \in {"greeting", "open"}

\* the connection has its ws.on('message') listener and the socket is open
IsOpen(k) == k \in 1..Len(conns) /\ conns[k].state = "open"

\* ws.on('message'), type user-message, up to processUserMessage's first await
WsUserMessage(k, text) ==
  /\ IsOpen(k)
  /\ Accept
  /\ StartTurn("wsmsg", "", k, conns[k].orch, orch[conns[k].orch].assistant, text)
  /\ Silent
  /\ UNCHANGED <<calls, sessions, messages, orch, activeCalls, conns, voicemails, now,
                 tool_executions, users, password_reset_tokens, refresh_tokens>>

\* ws.on('message'), type user-message without a text field:
\* processUserMessage(undefined)
WsUserMessageNoText(k) == WsUserMessage(k, Undefined)

\* ws.on('message'), type end-session: the UPDATE, session-ended, ws.close()
WsEndSession(k, dbOk) ==
  /\ IsOpen(k)
  /\ Accept
  /\ LET r == [R("ws-end-session") EXCEPT !.conn = k, !.orch = conns[k].orch]
     IN
       IF ~dbOk
         THEN /\ resp' = [r EXCEPT !.outcome = "error", !.type = "error"]
              /\ conns' = Send(conns, k, "error", NoText)
              /\ UNCHANGED sessions
         ELSE /\ sessions' = [sessions EXCEPT ![conns[k].session] = EndRow(@)]
              /\ resp' = [r EXCEPT !.outcome = "ok", !.type = "session-ended",
                            !.prev = PrevStatus({conns[k].session})]
              /\ conns' = [Send(conns, k, "session-ended", NoText) EXCEPT
                             ![k].state = "closing"]
  /\ UNCHANGED <<calls, messages, orch, activeCalls, tasks, voicemails, now,
                 tool_executions, users, password_reset_tokens, refresh_tokens>>

\* UPDATE sessions SET status = 'ended' WHERE id = $1 AND status = 'active'
EndIfActive(row) == IF row.status = "active" THEN EndRow(row) ELSE row

\* the socket closes (client gone, or after ws.close()); ws.on('close') runs
\* only if it was registered, which happens after the greeting
WsClose(k, dbOk) ==
  /\ k \in 1..Len(conns)
  /\ conns[k].state \in {"greeting", "open", "closing"}
  /\ conns' = [conns EXCEPT ![k].state = "closed"]
  /\ IF conns[k].state = "greeting" \/ ~dbOk
       THEN UNCHANGED sessions
       ELSE sessions' = [sessions EXCEPT ![conns[k].session] = EndIfActive(@)]
  /\ Silent
  /\ UNCHANGED <<calls, messages, orch, activeCalls, tasks, budget, voicemails, now,
                 tool_executions, users, password_reset_tokens, refresh_tokens>>

\* ws.on('message'), type user-audio, up to processUserAudio's first await
WsUserAudio(k, hasData) ==
  /\ IsOpen(k)
  /\ Accept
  /\ LET r == [R("ws-user-audio") EXCEPT !.conn = k, !.orch = conns[k].orch]
     IN
       IF ~hasData
         THEN /\ resp' = [r EXCEPT !.outcome = "no-data", !.type = "error"]
              /\ conns' = Send(conns, k, "error", NoText)
              /\ UNCHANGED tasks
         ELSE /\ Suspend([NoTask EXCEPT !.kind = "wsaudio", !.pc = "transcribe",
                            !.conn = k, !.orch = conns[k].orch,
                            !.asst = orch[conns[k].orch].assistant])
              /\ Silent
              /\ UNCHANGED conns
  /\ UNCHANGED <<calls, sessions, messages, orch, activeCalls, voicemails, now,
                 tool_executions, users, password_reset_tokens, refresh_tokens>>

\* a test that lets every transcription through (C21 depends on the test
\* below rejecting the empty one)
NoTranscriptionNever(text) == FALSE

\* processUserAudio: if (!transcription)
NoTranscription(text) == ~Truthy(text)

\* processUserAudio after transcribeAudio: a provider error is rethrown, an
\* empty transcription throws, otherwise processUserMessage(transcription)
\* is entered
Transcribed(t, ok, text) ==
  /\ t \in Pending
  /\ t.kind = "wsaudio" /\ t.pc = "transcribe"
  /\ IF ~ok
       THEN /\ TurnThrow(t, "transcription-error")
            /\ Finish(t)
       ELSE IF NoTranscription(text)
       THEN /\ TurnThrow([t EXCEPT !.text = text], "transcription-empty")
            /\ Finish(t)
       ELSE /\ Resume(t, [t EXCEPT !.pc = "saveUser", !.text = text,
                                   !.h0 = orch[t.orch].history])
            /\ Silent
            /\ UNCHANGED conns
  /\ UNCHANGED <<calls, sessions, messages, orch, activeCalls, budget, voicemails, now,
                 tool_executions, users, password_reset_tokens, refresh_tokens>>

\* a service that returns from createLiveConnection without keeping the
\* connection (C34 depends on the assignment below)
createLiveConnectionUnkept(c) == c

\* DeepgramService.createLiveConnection, when listen.live returns:
\* this.liveConnection = connection
createLiveConnection(c) == [c EXCEPT !.live = TRUE, !.dropped = FALSE]

\* ws.on('message'), type user-audio-stream-start: createLiveConnection,
\* one more 'transcript' listener, audio-stream-ready
WsStreamStart(k, ok) ==
  /\ IsOpen(k)
  /\ Accept
  /\ LET r == [R("ws-stream-start") EXCEPT !.conn = k, !.orch = conns[k].orch]
     IN
       IF ~ok
         THEN /\ resp' = [r EXCEPT !.outcome = "error", !.type = "error"]
              /\ conns' = Send(conns, k, "error", NoText)
         ELSE /\ resp' = [r EXCEPT !.outcome = "ok", !.type = "audio-stream-ready"]
              /\ conns' = [Send(conns, k, "audio-stream-ready", NoText) EXCEPT
                             ![k] = [createLiveConnection(@) EXCEPT
                                       !.listeners = @ + 1]]
  /\ UNCHANGED <<calls, sessions, messages, orch, activeCalls, tasks, voicemails, now,
                 tool_executions, users, password_reset_tokens, refresh_tokens>>

\* the provider closes the live connection (LiveTranscriptionEvents.Close):
\* the service logs and emits 'close', for which nobody listens; its
\* liveConnection keeps referring to the closed connection
LiveDropped(k) ==
  /\ k \in 1..Len(conns)
  /\ conns[k].live /\ ~conns[k].dropped
  /\ conns' = [conns EXCEPT ![k].dropped = TRUE]
  /\ resp' = [R("live-close") EXCEPT !.conn = k, !.orch = conns[k].orch]
  /\ UNCHANGED <<calls, sessions, messages, orch, activeCalls, tasks, budget, voicemails, now,
                 tool_executions, users, password_reset_tokens, refresh_tokens>>

\* DeepgramService.sendAudio: this.liveConnection.send(audioData); audio
\* sent to a connection the provider has closed is lost
sendAudio(cs, k, fwd) ==
  [cs EXCEPT ![k].audio = @ \/ (fwd /\ ~cs[k].dropped)]

\* a forwarding test that does not look at the live connection (C26 depends
\* on the test below looking at it)
ForwardsAlways(c, hasData) == hasData

\* user-audio-stream-chunk: if (deepgram.isLiveConnectionActive() && message.data)
Forwards(c, hasData) == c.live /\ hasData

\* ws.on('message'), type user-audio-stream-chunk: forwarded if a live
\* connection is set and the chunk has data; nothing is sent back
WsStreamChunk(k, hasData) ==
  /\ IsOpen(k)
  /\ Accept
  /\ resp' = [R("ws-stream-chunk") EXCEPT !.conn = k, !.orch = conns[k].orch,
                 !.outcome = IF ~Forwards(conns[k], hasData) THEN "ignored"
                             ELSE IF conns[k].dropped THEN "sent-to-dropped"
                             ELSE "forwarded"]
  /\ conns' = sendAudio(conns, k, Forwards(conns[k], hasData))
  /\ UNCHANGED <<calls, sessions, messages, orch, activeCalls, tasks, voicemails, now,
                 tool_executions, users, password_reset_tokens, refresh_tokens>>

\* DeepgramService.closeLiveConnection
closeLiveConnection(c) == [c EXCEPT !.live = FALSE, !.dropped = FALSE]

\* ws.on('message'), type user-audio-stream-end
WsStreamEnd(k) ==
  /\ IsOpen(k)
  /\ Accept
  /\ resp' = [R("ws-stream-end") EXCEPT !.conn = k, !.orch = conns[k].orch,
                 !.outcome = "ok", !.type = "audio-stream-closed"]
  /\ conns' = [Send(conns, k, "audio-stream-closed", NoText) EXCEPT
                 ![k] = closeLiveConnection(@)]
  /\ UNCHANGED <<calls, sessions, messages, orch, activeCalls, tasks, voicemails, now,
                 tool_executions, users, password_reset_tokens, refresh_tokens>>

\* a test that forgets the isFinal flag (C14 depends on the test below
\* looking at it)
StartsTurnAlways(isFinal, text) == Truthy(trim(text))

\* deepgram.on('transcript'): if (data.isFinal && data.text.trim())
StartsTurn(isFinal, text) == isFinal /\ Truthy(trim(text))

\* the provider reports a transcript for forwarded audio; DeepgramService
\* emits it (if non-empty) to every 'transcript' listener of the service
Transcript(k, isFinal, text) ==
  /\ k \in 1..Len(conns)
  /\ conns[k].audio /\ conns[k].listeners > 0
  /\ LET n == conns[k].listeners
         o == conns[k].orch
         r == [R("ws-transcript") EXCEPT !.conn = k, !.orch = o, !.text = text,
                 !.outcome = IF isFinal THEN "final" ELSE "interim"]
         heard == [conns EXCEPT ![k].audio = FALSE]
         t == [NoTask EXCEPT !.kind = "wsstream", !.pc = "saveUser", !.conn = k,
                 !.orch = o, !.asst = orch[o].assistant, !.text = text,
                 !.h0 = orch[o].history]
     IN
       IF ~Truthy(text)
         THEN /\ resp' = r
              /\ conns' = heard
              /\ UNCHANGED tasks
       ELSE IF StartsTurn(isFinal, text)
         THEN /\ tasks' = tasks (+) [x \in {t} |-> n]
              /\ resp' = r
              /\ conns' = heard
       ELSE IF ~isFinal
         THEN /\ resp' = [r EXCEPT !.type = "interim-transcript"]
              /\ conns' = IF n = 1
                            THEN Send(heard, k, "interim-transcript", text)
                            ELSE Send(Send(heard, k, "interim-transcript", text),
                                      k, "interim-transcript", text)
              /\ UNCHANGED tasks
       ELSE /\ resp' = r
            /\ conns' = heard
            /\ UNCHANGED tasks
  /\ UNCHANGED <<calls, sessions, messages, orch, activeCalls, budget, voicemails, now,
                 tool_executions, users, password_reset_tokens, refresh_tokens>>

\* ws.on('message') with a type no branch handles: nothing happens
WsUnknown(k) ==
  /\ IsOpen(k)
  /\ Accept
  /\ resp' = [R("ws-unknown") EXCEPT !.conn = k, !.orch = conns[k].orch]
  /\ UNCHANGED <<calls, sessions, messages, orch, activeCalls, conns, tasks, voicemails, now,
                 tool_executions, users, password_reset_tokens, refresh_tokens>>

\* payloads that are not a JSON object: text that is no JSON, the JSON value
\* null, and other JSON values (a number, a string, an array)
MalformedPayloads == {"not-json", "null", "value"}

\* JSON.parse(data.toString()) throws on text that is no JSON; message.type
\* throws on null; on any other value message.type is undefined
ParseThrows(payload) == payload \in {"not-json", "null"}

\* ws.on('message') with a payload that is not a JSON object: the catch of
\* the listener sends an error if something threw; otherwise no branch
\* matches and nothing happens (the record of the step keeps the payload
\* in its status field)
WsMalformed(k, payload) ==
  /\ IsOpen(k)
  /\ Accept
  /\ LET r == [R("ws-malformed") EXCEPT !.conn = k, !.orch = conns[k].orch,
                 !.status = payload]
     IN
       IF ParseThrows(payload)
         THEN /\ resp' = [r EXCEPT !.outcome = "parse-error", !.type = "error"]
              /\ conns' = Send(conns, k, "error", NoText)
         ELSE /\ resp' = [r EXCEPT !.outcome = "no-branch"]
              /\ UNCHANGED conns
  /\ UNCHANGED <<calls, sessions, messages, orch, activeCalls, tasks, voicemails, now,
                 tool_executions, users, password_reset_tokens, refresh_tokens>>

\* a message that arrives while getFirstMessage is awaited: ws.on('message')
\* is not registered yet, the event has no listener
WsEarlyMessage(k) ==
  /\ k \in 1..Len(conns) /\ conns[k].state = "greeting"
  /\ Accept
  /\ resp' = [R("ws-early") EXCEPT !.conn = k, !.orch = conns[k].orch]
  /\ UNCHANGED <<calls, sessions, messages, orch, activeCalls, conns, tasks, voicemails, now,
                 tool_executions, users, password_reset_tokens, refresh_tokens>>

\* ------------------------------------------------------------ specification
\* the telephony bridge with the REST routes that end calls and sessions
Next ==
  \/ \E c \in CallSids, ap \in AssistantParams, to \in ToNumbers, dbOk \in BOOLEAN :
       VoiceStart(c, ap, to, dbOk)
  \/ \E t \in Pending, dbOk \in BOOLEAN : VoiceInsertSession(t, dbOk)
  \/ \E t \in Pending, dbOk \in BOOLEAN : GreetingSave(t, dbOk)
  \/ \E t \in Pending, ok \in BOOLEAN : GreetingSynth(t, ok)
  \/ \E c \in CallSids, sp \in SpeechResults : GatherStart(c, sp)
  \/ \E t \in Pending, dbOk \in BOOLEAN : TurnSaveUser(t, dbOk)
  \/ \E t \in Pending, ok \in BOOLEAN, content \in Completions, dbOk \in BOOLEAN :
       TurnGenerate(t, ok, content, dbOk)
  \/ \E t \in Pending, ok \in BOOLEAN : TurnSynth(t, ok)
  \/ \E c \in CallSids, st \in CallStatuses, dbOk \in BOOLEAN : StatusUpdate(c, st, dbOk)
  \/ \E t \in Pending, dbOk \in BOOLEAN : StatusCascade(t, dbOk)
  \/ \E c \in CallSids, dbOk \in BOOLEAN : CallsEnd(c, dbOk)
  \/ \E s \in 1..Len(sessions) + 1, dbOk \in BOOLEAN : SessionsEnd(s, dbOk)

Spec == Init /\ [][Next]_vars

\* the socket transport with the sessions REST routes
SocketInit ==
  /\ InitState \/ \E aid \in AssistantIds : SessionCreated(aid)
  /\ budget = MaxWsReq

SocketNext ==
  \/ \E ap \in AssistantParams, dbOk \in BOOLEAN : SessionsCreate(ap, dbOk)
  \/ \E s \in 1..Len(sessions) + 1, dbOk \in BOOLEAN : SessionsEnd(s, dbOk)
  \/ \E s \in 0..Len(sessions) + 1, dbOk \in BOOLEAN : WsConnect(s, TRUE, dbOk)
  \/ \E t \in Pending, dbOk \in BOOLEAN : GreetingSave(t, dbOk)
  \/ \E t \in Pending, ok \in BOOLEAN : GreetingSynth(t, ok)
  \/ \E k \in 1..Len(conns), text \in UserTexts : WsUserMessage(k, text)
  \/ \E t \in Pending, dbOk \in BOOLEAN : TurnSaveUser(t, dbOk)
  \/ \E t \in Pending, ok \in BOOLEAN, content \in Completions, dbOk \in BOOLEAN :
       TurnGenerate(t, ok, content, dbOk)
  \/ \E t \in Pending, ok \in BOOLEAN : TurnSynth(t, ok)
  \/ \E k \in 1..Len(conns), dbOk \in BOOLEAN : WsEndSession(k, dbOk)
  \/ \E k \in 1..Len(conns), dbOk \in BOOLEAN : WsClose(k, dbOk)

\* the other message types of the socket: one-shot audio, unhandled types,
\* messages that arrive before the listener is registered
MessageNext ==
  \/ \E k \in 1..Len(conns), hasData \in BOOLEAN : WsUserAudio(k, hasData)
  \/ \E t \in Pending, ok \in BOOLEAN, text \in Transcripts : Transcribed(t, ok, text)
  \/ \E k \in 1..Len(conns) : WsUnknown(k)
  \/ \E k \in 1..Len(conns) : WsEarlyMessage(k)
  \/ \E k \in 1..Len(conns) : WsUserMessageNoText(k)
  \/ \E k \in 1..Len(conns), payload \in MalformedPayloads : WsMalformed(k, payload)
  \/ \E s \in 1..Len(sessions), dbOk \in BOOLEAN : WsConnect(s, FALSE, dbOk)

SocketSpec == SocketInit /\ [][SocketNext \/ MessageNext]_vars

\* streaming transcription on an established socket connection
StreamInit ==
  /\ \E aid \in AssistantIds :
       \/ \E live \in BOOLEAN : Connected(aid, live)
       \/ StreamEnded(aid)
  /\ budget = MaxStreamReq

StreamNext ==
  \/ \E k \in 1..Len(conns), ok \in BOOLEAN : WsStreamStart(k, ok)
  \/ \E k \in 1..Len(conns), hasData \in BOOLEAN : WsStreamChunk(k, hasData)
  \/ \E k \in 1..Len(conns) : WsStreamEnd(k)
  \/ \E k \in 1..Len(conns) : LiveDropped(k)
  \/ \E k \in 1..Len(conns), isFinal \in BOOLEAN, text \in Transcripts :
       Transcript(k, isFinal, text)
  \/ \E t \in Pending, dbOk \in BOOLEAN : TurnSaveUser(t, dbOk)
  \/ \E t \in Pending, ok \in BOOLEAN, content \in Completions, dbOk \in BOOLEAN :
       TurnGenerate(t, ok, content, dbOk)
  \/ \E t \in Pending, ok \in BOOLEAN : TurnSynth(t, ok)
  \/ \E k \in 1..Len(conns), dbOk \in BOOLEAN : WsEndSession(k, dbOk)
  \/ \E k \in 1..Len(conns), dbOk \in BOOLEAN : WsClose(k, dbOk)

StreamSpec == StreamInit /\ [][StreamNext]_vars

\* both transports side by side, started with the server, with a call under
\* way, with a web session created or with a socket connected to it
AllInit ==
  /\ \/ InitState
     \/ \E aid \in AssistantIds : CallEstablished(aid)
     \/ \E aid \in AssistantIds : SessionCreated(aid)
     \/ \E aid \in AssistantIds : Connected(aid, FALSE)
  /\ budget = MaxAllReq

AllNext == Next \/ SocketNext

AllSpec == AllInit /\ [][AllNext]_vars

\* the callbacks of one call: speech results, status, recording,
\* transcription and voicemail, in any order
CallbackInit ==
  /\ InitState \/ \E aid \in AssistantIds : CallEstablished(aid)
  /\ budget = MaxCbReq

CallbackNext ==
  \/ \E c \in CallSids, sp \in SpeechResults : GatherStart(c, sp)
  \/ \E t \in Pending, dbOk \in BOOLEAN : TurnSaveUser(t, dbOk)
  \/ \E t \in Pending, ok \in BOOLEAN, content \in Completions, dbOk \in BOOLEAN :
       TurnGenerate(t, ok, content, dbOk)
  \/ \E t \in Pending, ok \in BOOLEAN : TurnSynth(t, ok)
  \/ \E c \in CallSids, st \in CallStatuses, dbOk \in BOOLEAN : StatusUpdate(c, st, dbOk)
  \/ \E t \in Pending, dbOk \in BOOLEAN : StatusCascade(t, dbOk)
  \/ \E c \in CallSids, url \in RecordingUrls, dbOk \in BOOLEAN : Recording(c, url, dbOk)
  \/ \E c \in CallSids, text \in TranscriptionTexts, dbOk \in BOOLEAN :
       TranscriptionCallback(c, text, dbOk)
  \/ \E c \in CallSids, to \in ToNumbers, rsid \in RecordingSids, dbOk \in BOOLEAN :
       Voicemail(c, to, rsid, dbOk)
  \/ \E rsid \in RecordingSids, text \in TranscriptionTexts, dbOk \in BOOLEAN :
       VoicemailTranscription(rsid, text, dbOk)

CallbackSpec == CallbackInit /\ [][CallbackNext]_vars

\* time passes
Tick ==
  /\ now < MaxNow
  /\ now' = now + 1
  /\ Silent
  /\ UNCHANGED <<calls, sessions, messages, orch, activeCalls, conns, tasks, budget,
                 voicemails,
                 tool_executions, users, password_reset_tokens, refresh_tokens>>

\* the end transitions of sessions and calls while time passes: REST session
\* end, end-session, socket close, status callbacks
EndInit ==
  /\ \E aid \in AssistantIds : CallEstablished(aid) \/ Connected(aid, FALSE)
  /\ budget = MaxEndReq

EndNext ==
  \/ Tick
  \/ \E s \in 1..Len(sessions) + 1, dbOk \in BOOLEAN : SessionsEnd(s, dbOk)
  \/ \E k \in 1..Len(conns), dbOk \in BOOLEAN : WsEndSession(k, dbOk)
  \/ \E k \in 1..Len(conns), dbOk \in BOOLEAN : WsClose(k, dbOk)
  \/ \E c \in CallSids, st \in CallStatuses, dbOk \in BOOLEAN : StatusUpdate(c, st, dbOk)
  \/ \E t \in Pending, dbOk \in BOOLEAN : StatusCascade(t, dbOk)

EndSpec == EndInit /\ [][EndNext]_vars

\* one connection that has started the transcription stream once, and may
\* have ended it, starts and ends it again while audio and transcripts flow
RestartInit ==
  /\ \E aid \in AssistantIds :
       Connected(aid, TRUE) \/ StreamEnded(aid)
  /\ budget = MaxRestartReq

RestartNext ==
  \/ \E k \in 1..Len(conns), ok \in BOOLEAN : WsStreamStart(k, ok)
  \/ \E k \in 1..Len(conns), hasData \in BOOLEAN : WsStreamChunk(k, hasData)
  \/ \E k \in 1..Len(conns) : WsStreamEnd(k)
  \/ \E k \in 1..Len(conns), isFinal \in BOOLEAN, text \in Transcripts :
       Transcript(k, isFinal, text)
  \/ \E t \in Pending, dbOk \in BOOLEAN : TurnSaveUser(t, dbOk)
  \/ \E t \in Pending, ok \in BOOLEAN, content \in Completions, dbOk \in BOOLEAN :
       TurnGenerate(t, ok, content, dbOk)
  \/ \E t \in Pending, ok \in BOOLEAN : TurnSynth(t, ok)

RestartSpec == RestartInit /\ [][RestartNext]_vars

\* call ids of two calls that are under way at the same time
TwoCallSids == {"CA1", "CA2"}

\* the webhooks of two calls interleaved: one call is established, the other
\* may start; speech results and status callbacks arrive for both
IsoInit ==
  /\ \E aid \in AssistantIds : CallEstablished(aid)
  /\ budget = MaxIsoReq

IsoNext ==
  \/ \E c \in TwoCallSids, ap \in AssistantIds, dbOk \in BOOLEAN :
       VoiceStart(c, ap, "n1", dbOk)
  \/ \E t \in Pending, dbOk \in BOOLEAN : VoiceInsertSession(t, dbOk)
  \/ \E t \in Pending, dbOk \in BOOLEAN : GreetingSave(t, dbOk)
  \/ \E t \in Pending, ok \in BOOLEAN : GreetingSynth(t, ok)
  \/ \E c \in TwoCallSids, text \in UserTexts :
       GatherStart(c, [present |-> TRUE, text |-> text])
  \/ \E t \in Pending, dbOk \in BOOLEAN : TurnSaveUser(t, dbOk)
  \/ \E t \in Pending, ok \in BOOLEAN, dbOk \in BOOLEAN :
       TurnGenerate(t, ok, TxtOk, dbOk)
  \/ \E t \in Pending, ok \in BOOLEAN : TurnSynth(t, ok)
  \/ \E c \in TwoCallSids, st \in {"in-progress", "completed"}, dbOk \in BOOLEAN :
       StatusUpdate(c, st, dbOk)
  \/ \E t \in Pending, dbOk \in BOOLEAN : StatusCascade(t, dbOk)

IsoSpec == IsoInit /\ [][IsoNext]_vars

\* makeCall up to client.calls.create: the provider places the call and
\* returns its call id, or refuses
MakeCallCreate(c, aid, ok) ==
  /\ Accept
  /\ c \notin DOMAIN calls
  /\ \A t \in Pending : ~(t.kind = "makeCall" /\ t.callSid = c)
  /\ IF ~ok
       THEN /\ resp' = [R("makeCall") EXCEPT !.ap = aid, !.outcome = "error", !.http = 500]
            /\ UNCHANGED tasks
       ELSE /\ Suspend([NoTask EXCEPT !.kind = "makeCall", !.pc = "insertCall",
                                      !.callSid = c, !.asst = aid])
            /\ Silent
  /\ UNCHANGED <<calls, sessions, messages, orch, activeCalls, conns, voicemails, now,
                 tool_executions, users, password_reset_tokens, refresh_tokens>>

\* makeCall after client.calls.create: INSERT INTO calls under the provider's
\* call id, direction 'outbound'
MakeCallInsert(t, dbOk) ==
  /\ t \in Pending
  /\ t.kind = "makeCall" /\ t.pc = "insertCall"
  /\ LET c == t.callSid
         r == [R("makeCall") EXCEPT !.callSid = c, !.ap = t.asst]
     IN
       IF ~dbOk \/ ViolatesUnique(c, t.asst)
         THEN /\ resp' = [r EXCEPT !.outcome = "error", !.http = 500]
              /\ UNCHANGED calls
       ELSE /\ calls' = Put(calls, c, OutboundCall(t.asst))
            /\ resp' = [r EXCEPT !.outcome = "ok", !.http = 201]
  /\ Finish(t)
  /\ UNCHANGED <<sessions, messages, orch, activeCalls, conns, budget, voicemails, now,
                 tool_executions, users, password_reset_tokens, refresh_tokens>>

\* outbound calls: makeCall and the call-start webhook the provider sends
\* for the calls it placed or received
OutboundInit ==
  /\ InitState
  /\ budget = MaxOutReq

OutboundNext ==
  \/ \E c \in CallSids, aid \in AssistantIds, ok \in BOOLEAN : MakeCallCreate(c, aid, ok)
  \/ \E t \in Pending, dbOk \in BOOLEAN : MakeCallInsert(t, dbOk)
  \/ \E c \in CallSids, ap \in AssistantParams, to \in ToNumbers, dbOk \in BOOLEAN :
       VoiceStart(c, ap, to, dbOk)
  \/ \E t \in Pending, dbOk \in BOOLEAN : VoiceInsertSession(t, dbOk)
  \/ \E t \in Pending, dbOk \in BOOLEAN : GreetingSave(t, dbOk)
  \/ \E t \in Pending, ok \in BOOLEAN : GreetingSynth(t, ok)

OutboundSpec == OutboundInit /\ [][OutboundNext]_vars

\* ------------------------------------------------------------ ToolService
\* rows of the tools table of organization o1 (configuration)
Tools ==
  [ lookup |-> [name |-> "lookup", is_enabled |-> TRUE, handler_type |-> "builtin"],
    notify |-> [name |-> "notify", is_enabled |-> TRUE, handler_type |-> "webhook"],
    legacy |-> [name |-> "legacy", is_enabled |-> FALSE, handler_type |-> "builtin"] ]

\* toolCall.tool_name: a known tool or an unknown one
ToolNames == DOMAIN Tools \cup {"nosuch"}

\* the row the final UPDATE names: WHERE org_id AND tool_name AND status =
\* 'executing' ORDER BY created_at DESC LIMIT 1 (0 if there is none)
MostRecentExecuting(rows, org, tool) ==
  LET live == {i \in 1..Len(rows) : /\ rows[i].org_id = org
                                     /\ rows[i].tool_name = tool
                                     /\ rows[i].status = "executing"}
  IN IF live = {} THEN 0 ELSE CHOOSE i \in live : \A j \in live : j <= i

\* the final UPDATE as PostgreSQL runs it: UPDATE takes no ORDER BY and no
\* LIMIT clause, so the server rejects the statement with a syntax error and
\* changes no row
FinalizeUpdate(rows, org, tool, st) == [ok |-> FALSE, rows |-> rows]

\* executeTool up to getTool: unknown and disabled tools are refused; a
\* failing query enters the catch, whose UPDATE is awaited
ExecuteToolStart(org, name, dbOk) ==
  /\ Accept
  /\ LET r == [R("executeTool") EXCEPT !.tool = name]
         t == [NoTask EXCEPT !.kind = "executeTool", !.tool = name, !.asst = org]
     IN
       IF ~dbOk
         THEN /\ Suspend([t EXCEPT !.pc = "logError"])
              /\ Silent
       ELSE IF name \notin DOMAIN Tools
         THEN /\ resp' = [r EXCEPT !.outcome = "not-found"]
              /\ UNCHANGED tasks
       ELSE IF ~Tools[name].is_enabled
         THEN /\ resp' = [r EXCEPT !.outcome = "disabled"]
              /\ UNCHANGED tasks
       ELSE /\ Suspend([t EXCEPT !.pc = "insert"])
            /\ Silent
  /\ UNCHANGED <<calls, sessions, messages, orch, activeCalls, conns, voicemails, now,
                 tool_executions, users, password_reset_tokens, refresh_tokens>>

\* executeTool: INSERT INTO tool_executions with status 'executing'; the
\* handler is then started
ToolInsert(t, dbOk) ==
  /\ t \in Pending
  /\ t.kind = "executeTool" /\ t.pc = "insert"
  /\ IF ~dbOk
       THEN /\ Resume(t, [t EXCEPT !.pc = "logError"])
            /\ UNCHANGED tool_executions
       ELSE /\ tool_executions' =
                 Append(tool_executions,
                        [org_id |-> t.asst, tool_name |-> t.tool,
                         status |-> "executing", result |-> NoText])
            /\ Resume(t, [t EXCEPT !.pc = "handler", !.id = Len(tool_executions) + 1])
  /\ Silent
  /\ UNCHANGED <<calls, sessions, messages, orch, activeCalls, conns, budget, voicemails,
                 now, users, password_reset_tokens, refresh_tokens>>

\* executeTool: the handler returns a result or throws; the UPDATE that logs
\* the outcome is awaited
ToolHandler(t, ok, result) ==
  /\ t \in Pending
  /\ t.kind = "executeTool" /\ t.pc = "handler"
  /\ Resume(t, IF ok THEN [t EXCEPT !.pc = "logResult", !.reply = result]
                     ELSE [t EXCEPT !.pc = "logError"])
  /\ Silent
  /\ UNCHANGED <<calls, sessions, messages, orch, activeCalls, conns, budget, voicemails,
                 now, tool_executions, users, password_reset_tokens, refresh_tokens>>

\* executeTool: the UPDATE to 'completed' at the end of the try block; if it
\* throws, the catch block is entered
ToolLogResult(t, dbOk) ==
  /\ t \in Pending
  /\ t.kind = "executeTool" /\ t.pc = "logResult"
  /\ LET u == FinalizeUpdate(tool_executions, t.asst, t.tool, "completed")
         r == [R("executeTool") EXCEPT !.tool = t.tool, !.id = t.id, !.reply = t.reply]
     IN
       IF ~dbOk \/ ~u.ok
         THEN /\ Resume(t, [t EXCEPT !.pc = "logError"])
              /\ Silent
              /\ UNCHANGED tool_executions
         ELSE /\ tool_executions' = u.rows
              /\ resp' = [r EXCEPT !.outcome = "success"]
              /\ Finish(t)
  /\ UNCHANGED <<calls, sessions, messages, orch, activeCalls, conns, budget, voicemails,
                 now, users, password_reset_tokens, refresh_tokens>>

\* executeTool: the UPDATE to 'failed' in the catch block; if it throws,
\* executeTool rejects
ToolLogError(t, dbOk) ==
  /\ t \in Pending
  /\ t.kind = "executeTool" /\ t.pc = "logError"
  /\ LET u == FinalizeUpdate(tool_executions, t.asst, t.tool, "failed")
         r == [R("executeTool") EXCEPT !.tool = t.tool, !.id = t.id, !.reply = t.reply]
     IN
       IF ~dbOk \/ ~u.ok
         THEN /\ resp' = [r EXCEPT !.outcome = "rejected"]
              /\ UNCHANGED tool_executions
         ELSE /\ tool_executions' = u.rows
              /\ resp' = [r EXCEPT !.outcome = "failure"]
  /\ Finish(t)
  /\ UNCHANGED <<calls, sessions, messages, orch, activeCalls, conns, budget, voicemails,
                 now, users, password_reset_tokens, refresh_tokens>>

\* overlapping invocations of executeTool
ToolInit ==
  /\ InitState
  /\ budget = MaxToolReq

ToolNext ==
  \/ \E name \in ToolNames, dbOk \in BOOLEAN : ExecuteToolStart("o1", name, dbOk)
  \/ \E t \in Pending, dbOk \in BOOLEAN : ToolInsert(t, dbOk)
  \/ \E t \in Pending, ok \in BOOLEAN : ToolHandler(t, ok, TxtOk)
  \/ \E t \in Pending, dbOk \in BOOLEAN : ToolLogResult(t, dbOk)
  \/ \E t \in Pending, dbOk \in BOOLEAN : ToolLogError(t, dbOk)

ToolSpec == ToolInit /\ [][ToolNext]_vars

\* ------------------------------------------------------------ AuthService
\* validated.token: the valid token, the expired token, an unknown token
ResetTokens == {"T1", "T2", "T9"}

\* POST /password-reset, resetPassword up to the checks on the token row:
\* unknown, used and expired tokens are refused with 400; otherwise the new
\* password is hashed and the UPDATE of the user is awaited
ResetStart(token, password, dbOk) ==
  /\ Accept
  /\ LET r == [R("password-reset") EXCEPT !.token = token, !.text = password,
                                          !.http = 400]
     IN
       IF ~dbOk
         THEN resp' = [r EXCEPT !.outcome = "error"] /\ UNCHANGED tasks
       ELSE IF token \notin DOMAIN password_reset_tokens
         THEN resp' = [r EXCEPT !.outcome = "invalid"] /\ UNCHANGED tasks
       ELSE IF password_reset_tokens[token].used_at # 0
         THEN resp' = [r EXCEPT !.outcome = "already-used"] /\ UNCHANGED tasks
       ELSE IF password_reset_tokens[token].expires_at < now
         THEN resp' = [r EXCEPT !.outcome = "expired"] /\ UNCHANGED tasks
       ELSE /\ Suspend([NoTask EXCEPT !.kind = "password-reset", !.pc = "updateUser",
                                      !.token = token, !.text = password,
                                      !.user = password_reset_tokens[token].user_id])
            /\ Silent
  /\ UNCHANGED <<calls, sessions, messages, orch, activeCalls, conns, voicemails, now,
                 tool_executions, users, password_reset_tokens, refresh_tokens>>

\* reply of the route when resetPassword threw in a later step
ResetFailed(t) ==
  /\ resp' = [R("password-reset") EXCEPT !.token = t.token, !.text = t.text,
                                         !.http = 400, !.outcome = "error"]
  /\ Finish(t)

\* resetPassword: UPDATE users SET password_hash
ResetUpdateUser(t, dbOk) ==
  /\ t \in Pending
  /\ t.kind = "password-reset" /\ t.pc = "updateUser"
  /\ IF ~dbOk
       THEN ResetFailed(t) /\ UNCHANGED users
       ELSE /\ users' = [users EXCEPT ![t.user].password_hash = hashPassword(t.text),
                                      ![t.user].updated_at = now]
            /\ Resume(t, [t EXCEPT !.pc = "markUsed"])
            /\ Silent
  /\ UNCHANGED <<calls, sessions, messages, orch, activeCalls, conns, budget, voicemails,
                 now, tool_executions, password_reset_tokens, refresh_tokens>>

\* UPDATE password_reset_tokens SET used_at = NOW()
MarkUsed(row) == [row EXCEPT !.used_at = now]

\* resetPassword: the token is marked as used
ResetMarkUsed(t, dbOk) ==
  /\ t \in Pending
  /\ t.kind = "password-reset" /\ t.pc = "markUsed"
  /\ IF ~dbOk
       THEN ResetFailed(t) /\ UNCHANGED password_reset_tokens
       ELSE /\ password_reset_tokens' =
                 [password_reset_tokens EXCEPT ![t.token] = MarkUsed(@)]
            /\ Resume(t, [t EXCEPT !.pc = "revoke"])
            /\ Silent
  /\ UNCHANGED <<calls, sessions, messages, orch, activeCalls, conns, budget, voicemails,
                 now, tool_executions, users, refresh_tokens>>

\* resetPassword: revokeAllUserTokens; the route answers 'Password reset
\* successful'
ResetRevoke(t, dbOk) ==
  /\ t \in Pending
  /\ t.kind = "password-reset" /\ t.pc = "revoke"
  /\ IF ~dbOk
       THEN ResetFailed(t) /\ UNCHANGED refresh_tokens
       ELSE /\ refresh_tokens' =
                 [i \in 1..Len(refresh_tokens) |->
                    IF refresh_tokens[i].user_id = t.user /\ refresh_tokens[i].revoked_at = 0
                      THEN [refresh_tokens[i] EXCEPT !.revoked_at = now]
                      ELSE refresh_tokens[i]]
            /\ resp' = [R("password-reset") EXCEPT !.token = t.token, !.text = t.text,
                                                   !.http = 200, !.outcome = "ok"]
            /\ Finish(t)
  /\ UNCHANGED <<calls, sessions, messages, orch, activeCalls, conns, budget, voicemails,
                 now, tool_executions, users, password_reset_tokens>>

\* password resets that overlap
AuthInit ==
  /\ InitState
  /\ budget = MaxAuthReq

AuthNext ==
  \/ \E token \in ResetTokens, password \in Passwords, dbOk \in BOOLEAN :
       ResetStart(token, password, dbOk)
  \/ \E t \in Pending, dbOk \in BOOLEAN : ResetUpdateUser(t, dbOk)
  \/ \E t \in Pending, dbOk \in BOOLEAN : ResetMarkUsed(t, dbOk)
  \/ \E t \in Pending, dbOk \in BOOLEAN : ResetRevoke(t, dbOk)

AuthSpec == AuthInit /\ [][AuthNext]_vars

\* ================================================================ claims
History(o) == orch[o].history
IsTurnResp(r) == r.handler \in {"gather", "wsmsg"}
TurnTasks == {t \in Pending : t.kind \in {"gather", "wsmsg"}}
SessionsOf(c) == {s \in 1..Len(sessions) : sessions[s].call_id = c}

\* C1: a text turn that returns leaves the history equal to the history at
\* its call followed by its user message and its assistant message; a turn
\* whose generation fails leaves it equal to the history at its call followed
\* by the user message only.
C1_TurnDelta ==
  /\ (IsTurnResp(resp) /\ resp.outcome = "ok") =>
        History(resp.orch) = resp.h0 \o << Msg("user", resp.text),
                                          Msg("assistant", resp.reply) >>
  /\ (IsTurnResp(resp) /\ resp.outcome = "generation-failed") =>
        History(resp.orch) = resp.h0 \o << Msg("user", resp.text) >>

\* C2: no turn of an orchestrator has appended its user message or started
\* generation while another turn of the same orchestrator still has
\* generation or synthesis outstanding.
C2_TurnsSequential ==
  \A t \in TurnTasks :
    t.pc \in {"generate", "synth"} =>
      /\ CopiesIn(t, tasks) = 1
      /\ \A u \in TurnTasks \ {t} :
           u.orch = t.orch => u.pc \notin {"generate", "synth"}

\* the rows of the messages table of session sid, as history entries
Persisted(sid) ==
  LET rows == SelectSeq(messages, LAMBDA r : r.session_id = sid)
  IN [i \in 1..Len(rows) |-> Msg(rows[i].role, rows[i].content)]

C4_SessionMonotonic ==
  [][\A s \in 1..Len(sessions) :
       sessions[s].status = "ended" =>
         (s <= Len(sessions') /\ sessions'[s].status = "ended")]_vars

\* a session that was ended already has been ended once more (by the REST
\* route, the cascade of a terminal status callback or end-session)
C4_Witness ==
  /\ resp.handler \in {"sessions-end", "status", "ws-end-session"}
  /\ resp.outcome = "ok"
  /\ resp.prev = "ended"
  /\ \E s \in 1..Len(sessions) : sessions[s].status = "ended"

C6_TerminalCleanup ==
  (resp.handler = "status" /\ resp.status \in Terminal /\ resp.outcome = "ok") =>
    /\ resp.callSid \notin DOMAIN activeCalls
    /\ \A s \in SessionsOf(resp.callSid) : sessions[s].status = "ended"

\* C7: no path leaves a call with a terminal status, and nothing of it still
\* running, with a registry entry or an active Session.
C7_CleanupGate ==
  \A c \in DOMAIN calls :
    (calls[c].status \in Terminal /\ tasks = EmptyBag) =>
      /\ c \notin DOMAIN activeCalls
      /\ \A s \in SessionsOf(c) : sessions[s].status = "ended"

\* p occurs in s when letter case is ignored
CIContains(s, p) ==
  \E i \in 0..(Len(s) - Len(p)) :
    \A j \in 1..Len(p) : LowerChar(s[i + j]) = LowerChar(p[j])

MatchesEndPhrase(speech, aid) ==
  \E i \in 1..Len(Assistants[aid].end_call_phrases) :
    CIContains(speech, Assistants[aid].end_call_phrases[i])

\* the markup speaks text and nothing else
Speaks(m, text) ==
  /\ Spoken(m) \subseteq {text}
  /\ Truthy(text) => text \in Spoken(m)

\* C8: the speech-result handler, after a successful turn of a registered
\* call: if an end phrase is a case-insensitive substring of the speech the
\* markup speaks the reply, hangs up, has no gather and the registry entry is
\* removed; otherwise the markup speaks the reply, gathers, does not hang up
\* and the handler leaves the registry as it is.
C8_EndPhrase ==
  [][(resp'.handler = "gather" /\ resp'.outcome = "ok") =>
       IF MatchesEndPhrase(resp'.speech.text, orch[resp'.orch].assistant)
         THEN /\ Speaks(resp'.markup, resp'.reply)
              /\ HasVerb(resp'.markup, "Hangup")
              /\ ~HasVerb(resp'.markup, "Gather")
              /\ resp'.callSid \notin DOMAIN activeCalls'
         ELSE /\ Speaks(resp'.markup, resp'.reply)
              /\ HasVerb(resp'.markup, "Gather")
              /\ ~HasVerb(resp'.markup, "Hangup")
              /\ activeCalls' = activeCalls]_vars

\* a turn whose mixed-case speech holds the end phrase was answered
C8_Witness ==
  /\ resp.handler = "gather" /\ resp.outcome = "ok"
  /\ resp.speech.text = TxtBye
  /\ Truthy(resp.reply)
  /\ HasVerb(resp.markup, "Hangup")

IsGatherRequest == resp'.handler = "gather" /\ budget' # budget

\* C9: a speech-result webhook without speech (absent or empty) is answered
\* with the re-prompt followed by a gather and no hangup; it starts no turn
\* and leaves every history and the registry unchanged.
C9_NoSpeech ==
  [][(IsGatherRequest /\ ~(resp'.speech.present /\ Len(resp'.speech.text) > 0)) =>
       /\ Len(resp'.markup) = 2
       /\ resp'.markup[1] = Verb("Say", SayRepeat, "")
       /\ resp'.markup[2].verb = "Gather"
       /\ resp'.markup[2].action = resp'.callSid
       /\ ~HasVerb(resp'.markup, "Hangup")
       /\ tasks' = tasks /\ orch' = orch /\ messages' = messages
       /\ activeCalls' = activeCalls]_vars

\* an empty speech result for a registered call was answered
C9_Witness ==
  /\ resp.handler = "gather" /\ resp.outcome = "no-speech"
  /\ resp.speech = [present |-> TRUE, text |-> NoText]
  /\ resp.callSid \in DOMAIN activeCalls

ExpiryAnswer ==
  /\ Spoken(resp'.markup) = {SayExpired}
  /\ HasVerb(resp'.markup, "Hangup")
  /\ ~HasVerb(resp'.markup, "Gather")
  /\ tasks' = tasks /\ orch' = orch /\ messages' = messages
  /\ activeCalls' = activeCalls

\* C10 as stated: every speech-result webhook for a call id without registry
\* entry is answered with the expiry announcement and a hangup, whatever its
\* speech field holds.
C10_Original ==
  [][(IsGatherRequest /\ resp'.callSid \notin DOMAIN activeCalls) => ExpiryAnswer]_vars

\* C10 as amended: every speech-result webhook that carries speech, for a
\* call id without registry entry, is answered with the expiry announcement
\* and a hangup and no gather; it starts no turn and creates no registry entry.
C10_Expired ==
  [][(/\ IsGatherRequest
      /\ resp'.callSid \notin DOMAIN activeCalls
      /\ resp'.speech.present /\ Len(resp'.speech.text) > 0) => ExpiryAnswer]_vars

\* speech for a call whose entry an end phrase or a terminal status removed
C10_Witness ==
  /\ resp.handler = "gather" /\ resp.outcome = "expired"
  /\ resp.callSid \in DOMAIN calls
  /\ resp.callSid \notin DOMAIN activeCalls
  /\ Len(resp.speech.text) > 0

\* neither the assistant_id parameter nor the called number names an
\* assistant
NoAssistantFor(ap, to) ==
  IF ap # "" THEN ap \notin AssistantIds ELSE to \notin DOMAIN PhoneNumbers

IsVoiceReply == resp'.handler = "voice" /\ budget' # budget

\* C11: a call-start webhook for which no assistant resolves is answered at
\* once with a hangup and no gather, announcing that the number is not
\* configured (unless the lookup itself failed), and it creates no Call, no
\* Session, no orchestrator and no registry entry.
C11_NoAssistant ==
  [][(IsVoiceReply /\ NoAssistantFor(resp'.ap, resp'.to)) =>
       /\ HasVerb(resp'.markup, "Hangup")
       /\ ~HasVerb(resp'.markup, "Gather")
       /\ (resp'.outcome # "error" =>
             resp'.markup = << Verb("Say", SayNotConfigured, ""),
                               Verb("Hangup", NoText, "") >>)
       /\ calls' = calls /\ sessions' = sessions /\ orch' = orch
       /\ activeCalls' = activeCalls /\ tasks' = tasks
       /\ messages' = messages]_vars

\* an unknown assistant id on a number that maps to an assistant was answered
\* with the announcement
C11_Witness ==
  /\ resp.handler = "voice" /\ resp.outcome = "not-configured"
  /\ resp.ap = "A9" /\ resp.to = "n1"
  /\ resp.callSid \notin DOMAIN calls

\* the number of entries of sequence q that equal x
Count(q, x) == Cardinality({i \in 1..Len(q) : q[i] = x})

\* C12: a call-start webhook whose assistant resolves and has a first
\* message, and which meets no internal error: the step that registers the
\* call id adds one Session of the Call and one orchestrator of that Session
\* and registers that orchestrator; when the webhook is answered the Call
\* exists, it owns exactly one Session, the greeting is in the history and in
\* the persisted messages once, and the markup is the played greeting
\* followed by a gather whose action carries the call id, with no hangup.
C12_CallStart ==
  [][/\ \A c \in CallSids :
          (c \notin DOMAIN activeCalls /\ c \in DOMAIN activeCalls') =>
            /\ c \in DOMAIN calls'
            /\ Len(sessions') = Len(sessions) + 1
            /\ sessions'[Len(sessions')] =
                  NewSession(calls'[c].assistant_id, c, "phone")
            /\ Len(orch') = Len(orch) + 1
            /\ orch'[Len(orch')].sessionId = Len(sessions')
            /\ orch'[Len(orch')].assistant = calls'[c].assistant_id
            /\ activeCalls'[c] = Len(orch')
     /\ (/\ resp'.handler = "voice" /\ resp'.outcome = "ok"
         /\ Truthy(Assistants[orch'[resp'.orch].assistant].first_message)) =>
          LET c == resp'.callSid
              o == resp'.orch
              fm == Assistants[orch'[o].assistant].first_message
          IN /\ c \in DOMAIN calls'
             /\ Cardinality({i \in 1..Len(sessions') : sessions'[i].call_id = c}) = 1
             /\ sessions'[orch'[o].sessionId].call_id = c
             /\ Count(orch'[o].history, Msg("assistant", fm)) = 1
             /\ Count(messages', Row(orch'[o].sessionId, "assistant", fm)) = 1
             /\ resp'.reply = fm
             /\ resp'.markup = << Verb("Play", <<"audio/first">>, ""),
                                  Verb("Gather", NoText, c) >>
             /\ ~HasVerb(resp'.markup, "Hangup")]_vars

\* a call to assistant A1 was set up and its greeting answered
C12_Witness ==
  /\ resp.handler = "voice" /\ resp.outcome = "ok"
  /\ resp.reply = TxtHello
  /\ resp.callSid \in DOMAIN activeCalls
  /\ activeCalls[resp.callSid] = resp.orch

\* the outcomes with which a bridge handler reports an internal error
IsBridgeError(r) ==
  /\ r.handler \in {"voice", "gather", "status"}
  /\ r.outcome \in {"error", "duplicate-call", "save-user-failed", "generation-failed",
                     "save-assistant-failed", "synthesis-failed"}

\* C13: a bridge handler (call-start, speech-result, status) that meets an
\* internal error answers with markup that speaks an apology and then hangs
\* up, never with a bare error response.
C13_ErrorMarkup ==
  IsBridgeError(resp) =>
    /\ Len(resp.markup) = 2
    /\ resp.markup[1].verb = "Say"
    /\ resp.markup[1].text \in {SayVoiceError, SayGatherError}
    /\ resp.markup[2].verb = "Hangup"
    /\ resp.http # 500

\* a speech-result turn whose generation failed was answered with the apology
C13_Witness ==
  /\ resp.handler = "gather" /\ resp.outcome = "generation-failed"
  /\ resp.markup = << Verb("Say", SayGatherError, ""), Verb("Hangup", NoText, "") >>

\* a turn of a streaming transcript is entered in this step
StreamTurnStarts ==
  \E t \in BagToSet(tasks') :
    /\ t.kind = "wsstream" /\ t.pc = "saveUser"
    /\ CopiesIn(t, tasks') > CopiesIn(t, tasks)

\* C14: an interim transcript event starts no turn and changes neither a
\* history nor the persisted messages, it only sends interim-transcript; a
\* turn of the streaming channel is started by a final transcript event only.
C14_InterimAdvisory ==
  [][/\ (resp'.handler = "ws-transcript" /\ resp'.outcome = "interim") =>
          /\ tasks' = tasks /\ orch' = orch /\ messages' = messages
          /\ resp'.type \in {"", "interim-transcript"}
          /\ Truthy(resp'.text) => resp'.type = "interim-transcript"
     /\ StreamTurnStarts =>
          (resp'.handler = "ws-transcript" /\ resp'.outcome = "final")]_vars

\* an interim transcript was passed on to the client of an open connection
C14_Witness ==
  /\ resp.handler = "ws-transcript" /\ resp.outcome = "interim"
  /\ resp.text = TxtHi
  /\ conns[resp.conn].out # << >>
  /\ conns[resp.conn].out[Len(conns[resp.conn].out)] = Out("interim-transcript", TxtHi)

\* the greeting message of connection k, as delivered
GreetingOf(k) ==
  Out("assistant-message", Assistants[orch[conns[k].orch].assistant].first_message)

\* C15: on every accepted socket connection the first message delivered is
\* 'connected' and no other message is; if the assistant has a first
\* message, the greeting is delivered exactly once, right after 'connected'
\* and before the response to any input (unless the setup fails, which ends
\* the connection with an error).
C15_ConnectOrder ==
  \A k \in 1..Len(conns) :
    LET out == conns[k].out
        greets == Truthy(GreetingOf(k).text)
    IN /\ Len(out) >= 1
       /\ out[1].type = "connected"
       /\ \A i \in 2..Len(out) : out[i].type # "connected"
       /\ greets =>
            /\ Len(out) >= 2 => out[2] \in {GreetingOf(k), Out("error", NoText)}
            /\ (Len(out) >= 2 /\ out[2] # GreetingOf(k)) => Len(out) = 2
            /\ \A i \in 3..Len(out) : out[i] # GreetingOf(k)
            /\ conns[k].state = "open" => Len(out) >= 2

\* connected, the greeting, then the reply to a user message
C15_Witness ==
  \E k \in 1..Len(conns) :
    /\ Len(conns[k].out) = 3
    /\ conns[k].out[1] = Out("connected", NoText)
    /\ conns[k].out[2] = Out("assistant-message", TxtHello)
    /\ conns[k].out[3] = Out("assistant-message", TxtOk)

\* the handlers that finish an inbound socket message other than streaming
\* transcription
AnswersInput(r) ==
  r.handler \in {"wsmsg", "wsaudio", "ws-user-audio", "ws-stream-start",
                 "ws-stream-end", "ws-end-session", "ws-unknown", "ws-early"}

\* C16: when the handling of an inbound socket message (user-message,
\* user-audio, stream start or end, end-session, unknown type, or a message
\* sent during the greeting) finishes on a connection that is still open,
\* exactly one message has been delivered for it.
C16_OneReply ==
  [][(AnswersInput(resp') /\ conns[resp'.conn].state \in {"greeting", "open"}) =>
       /\ Len(conns'[resp'.conn].out) = Len(conns[resp'.conn].out) + 1
       /\ resp'.type # ""]_vars

\* a user message was answered with one assistant-message
C16_Witness ==
  /\ resp.handler = "wsmsg" /\ resp.outcome = "ok"
  /\ resp.type = "assistant-message"
  /\ conns[resp.conn].out[Len(conns[resp.conn].out)] =
        Out("assistant-message", resp.reply)

\* C17: once a socket connection is closed, or end-session has been handled
\* on it, its transcription service holds no live connection.
C17_StreamClosed ==
  \A k \in 1..Len(conns) :
    conns[k].state \in {"closing", "closed"} => ~conns[k].live

\* a turn of orchestrator o is entered in this step
TurnStartsOn(o) ==
  \E t \in BagToSet(tasks') :
    /\ t.orch = o /\ t.kind \in TurnKinds /\ t.pc \in {"saveUser", "transcribe"}
    /\ CopiesIn(t, tasks') > CopiesIn(t, tasks)

\* C18: once the session of an orchestrator is ended, no step appends to the
\* orchestrator's history, persists a message of that session or starts a
\* turn on that orchestrator.
C18_DiscardAfterEnd ==
  [][\A o \in 1..Len(orch) :
       sessions[orch[o].sessionId].status = "ended" =>
         /\ orch'[o].history = orch[o].history
         /\ SelectSeq(messages', LAMBDA r : r.session_id = orch[o].sessionId)
              = SelectSeq(messages, LAMBDA r : r.session_id = orch[o].sessionId)
         /\ ~TurnStartsOn(o)]_vars

\* the orchestrators of session sid that have appended (and persisted) a
\* message after the system prompt
Writers(sid) ==
  {o \in 1..Len(orch) : orch[o].sessionId = sid /\ Len(orch[o].history) > 1}

\* C19: at most one orchestrator has written messages for a session.
C19_SingleWriter ==
  \A sid \in 1..Len(sessions) : Cardinality(Writers(sid)) <= 1

\* C20: when a turn is reported failed because generation or synthesis
\* failed, the history holds no assistant message after the entries it had
\* when the turn was called, and the persisted messages of the session hold
\* no assistant row after them either.
C20_FailedTurn ==
  (IsTurnResp(resp) /\ resp.outcome \in {"generation-failed", "synthesis-failed"}) =>
    LET h == History(resp.orch)
        p == Persisted(orch[resp.orch].sessionId)
        n == Len(resp.h0)
    IN /\ \A i \in (n + 1)..Len(h) : h[i].role # "assistant"
       /\ \A i \in n..Len(p) : p[i].role # "assistant"

\* a turn whose generation failed left only its user message behind
C20_Witness ==
  /\ IsTurnResp(resp) /\ resp.outcome = "generation-failed"
  /\ History(resp.orch) = resp.h0 \o << Msg("user", resp.text) >>

\* an audio turn leaves its transcription step in this move
LeavesTranscription(t) ==
  /\ t.kind = "wsaudio" /\ t.pc = "transcribe"
  /\ CopiesIn(t, tasks') < CopiesIn(t, tasks)

\* C21: when the batch transcription of an audio input returns, either the
\* input fails (the provider threw, or the transcription is empty): an error
\* is sent, no history and no persisted message changes and no turn is
\* entered; or exactly one text turn is entered whose user text is the
\* non-empty transcription.  An audio input that is answered returns that
\* text, which the history then holds as a user message.
C21_AudioInput ==
  [][/\ \A t \in BagToSet(tasks) :
          LeavesTranscription(t) =>
            \/ /\ resp'.handler = "wsaudio"
               /\ resp'.outcome \in {"transcription-error", "transcription-empty"}
               /\ ~Truthy(resp'.text)
               /\ resp'.type = "error"
               /\ orch' = orch /\ messages' = messages
               /\ tasks' = tasks (-) SetToBag({t})
            \/ /\ resp' = NoResp
               /\ orch' = orch /\ messages' = messages /\ conns' = conns
               /\ \E u \in BagToSet(tasks') :
                    /\ Truthy(u.text)
                    /\ u = [t EXCEPT !.pc = "saveUser", !.text = u.text,
                                     !.h0 = orch[t.orch].history]
                    /\ tasks' = (tasks (-) SetToBag({t})) (+) SetToBag({u})
     /\ (resp'.handler = "wsaudio" /\ resp'.outcome = "ok") =>
          /\ Truthy(resp'.text)
          /\ \E i \in (Len(resp'.h0) + 1)..Len(orch'[resp'.orch].history) :
               orch'[resp'.orch].history[i] = Msg("user", resp'.text)]_vars

\* an audio input whose transcription came back empty was answered with an
\* error, the history still being the system prompt alone
C21_Witness ==
  /\ resp.handler = "wsaudio" /\ resp.outcome = "transcription-empty"
  /\ conns[resp.conn].out[Len(conns[resp.conn].out)] = Out("error", NoText)
  /\ Len(History(resp.orch)) = 1
  /\ Persisted(orch[resp.orch].sessionId) = << >>

\* the message delivered to connection k in this step, if it is open
Delivers(k, type) ==
  conns'[k].out =
    IF conns[k].state \in {"greeting", "open"}
      THEN Append(conns[k].out, Out(type, NoText))
      ELSE conns[k].out

\* C22: a user-audio message without data is answered with an error at
\* once: no transcription and no turn is started and no history or persisted
\* message changes.  A user-message without text never gets past the save of
\* its user message: it is answered with an error, no generation or synthesis
\* is started for it, and no history or persisted message ever holds it.
C22_MissingField ==
  [][/\ (resp'.handler = "ws-user-audio" /\ resp'.outcome = "no-data") =>
          /\ resp'.type = "error"
          /\ Delivers(resp'.conn, "error")
          /\ tasks' = tasks /\ orch' = orch /\ messages' = messages
     /\ \A t \in BagToSet(tasks) :
          (t.kind = "wsmsg" /\ t.text = Undefined) =>
            /\ t.pc = "saveUser"
            /\ CopiesIn(t, tasks') < CopiesIn(t, tasks) =>
                 /\ resp'.handler = "wsmsg" /\ resp'.outcome = "save-user-failed"
                 /\ resp'.type = "error"
                 /\ Delivers(t.conn, "error")
                 /\ tasks' = tasks (-) SetToBag({t})
                 /\ orch' = orch /\ messages' = messages
     /\ \A o \in 1..Len(orch') : \A i \in 1..Len(orch'[o].history) :
          orch'[o].history[i].content # Undefined
     /\ \A i \in 1..Len(messages') : messages'[i].content # Undefined]_vars

\* a user-message without text was answered with an error, its orchestrator
\* still holding the system prompt alone
C22_Witness ==
  /\ resp.handler = "wsmsg" /\ resp.outcome = "save-user-failed"
  /\ resp.text = Undefined
  /\ conns[resp.conn].out[Len(conns[resp.conn].out)] = Out("error", NoText)
  /\ Len(History(resp.orch)) = 1

\* the responses of the recording, transcription and voicemail callbacks
IsRecordCallback(r) ==
  r.handler \in {"recording", "transcription", "voicemail", "voicemail-transcription"}

\* C23: a recording, transcription or voicemail callback, wherever it falls
\* among the other callbacks of the call, leaves the registry, every history,
\* the persisted messages, the running turns, the status of every Call and
\* every Session as they are; it is answered 200 unless the database failed,
\* in which case it changes nothing at all.
C23_RecordOnly ==
  [][IsRecordCallback(resp') =>
       /\ activeCalls' = activeCalls /\ orch' = orch /\ tasks' = tasks
       /\ sessions' = sessions /\ messages' = messages /\ conns' = conns
       /\ DOMAIN calls' = DOMAIN calls
       /\ \A c \in DOMAIN calls :
            /\ calls'[c].status = calls[c].status
            /\ calls'[c].assistant_id = calls[c].assistant_id
            /\ calls'[c].end_reason = calls[c].end_reason
       /\ resp'.http \in {200, 500}
       /\ resp'.http = 500 => (calls' = calls /\ voicemails' = voicemails)]_vars

\* the recording of a call arrived after its terminal status callback had
\* removed the registry entry, and was stored
C23_Witness ==
  /\ resp.handler = "recording" /\ resp.http = 200
  /\ resp.callSid \in DOMAIN calls
  /\ resp.callSid \notin DOMAIN activeCalls
  /\ calls[resp.callSid].status \in Terminal
  /\ calls[resp.callSid].recording_url = "rec1"

\* sequence p is an initial part of sequence q
IsPrefix(p, q) == Len(p) <= Len(q) /\ SubSeq(q, 1, Len(p)) = p

\* C24: no step removes an orchestrator, and the history of every
\* orchestrator before a step is an initial part of its history after the
\* step; so every history observed earlier is an initial part of the
\* current one.
C24_AppendOnly ==
  [][/\ Len(orch') >= Len(orch)
     /\ \A o \in 1..Len(orch) :
          /\ orch'[o].sessionId = orch[o].sessionId
          /\ IsPrefix(orch[o].history, orch'[o].history)]_vars

\* after the greeting, a turn whose synthesis failed has left its user
\* message and its assistant message behind the entries it found
C24_Witness ==
  /\ resp.handler \in {"wsmsg", "wsaudio"} /\ resp.outcome = "synthesis-failed"
  /\ Len(resp.h0) = 2
  /\ resp.h0[2] = Msg("assistant", TxtHello)
  /\ Len(History(resp.orch)) = 4
  /\ IsPrefix(resp.h0, History(resp.orch))

\* the number of times the first message of session sid's assistant is
\* persisted as an assistant message of that session
GreetingsPersisted(sid) ==
  LET fm == Assistants[sessions[sid].assistant_id].first_message
  IN Cardinality({i \in 1..Len(messages) : messages[i] = Row(sid, "assistant", fm)})

\* C25: for every session whose assistant has a first message, that message
\* is persisted as an assistant message of the session at most once, and at
\* most one orchestrator of the session holds it in its history.
C25_GreetingOnce ==
  \A sid \in 1..Len(sessions) :
    Truthy(Assistants[sessions[sid].assistant_id].first_message) =>
    /\ GreetingsPersisted(sid) <= 1
    /\ Cardinality({o \in 1..Len(orch) :
           /\ orch[o].sessionId = sid
           /\ Msg("assistant", Assistants[orch[o].assistant].first_message)
                 \in {orch[o].history[i] : i \in 1..Len(orch[o].history)}}) <= 1

\* a connect to a session of an assistant with a first message was greeted
C25_Witness ==
  /\ resp.handler = "ws-connect" /\ resp.type = "assistant-message"
  /\ resp.reply = TxtHello
  /\ GreetingsPersisted(conns[resp.conn].session) = 1

\* everything but the connections, the response record and the request
\* count stays as it is
RestUnchanged ==
  /\ calls' = calls /\ sessions' = sessions /\ messages' = messages
  /\ orch' = orch /\ activeCalls' = activeCalls /\ tasks' = tasks
  /\ voicemails' = voicemails

\* C26: the live connection of a connection's transcription service is set
\* by a successful stream-start and cleared by stream-end.  Audio is forwarded
\* only by a chunk that arrives while the live connection is set; a chunk that
\* arrives while it is not set (before any stream-start, or after stream-end)
\* sends nothing and changes nothing; a stream-end that arrives while it is
\* not set leaves the transcription service and everything else as they are
\* and is acknowledged.
C26_StreamChannel ==
  [][\A k \in 1..Len(conns) :
       /\ (conns'[k].live /\ ~conns[k].live) =>
            (resp'.handler = "ws-stream-start" /\ resp'.outcome = "ok" /\ resp'.conn = k)
       /\ (resp'.handler = "ws-stream-end" /\ resp'.conn = k) => ~conns'[k].live
       /\ (conns'[k].audio /\ ~conns[k].audio) =>
            /\ resp'.handler = "ws-stream-chunk" /\ resp'.conn = k
            /\ conns[k].live
       /\ (resp'.handler = "ws-stream-chunk" /\ resp'.conn = k /\ ~conns[k].live) =>
            /\ resp'.outcome = "ignored" /\ resp'.type = ""
            /\ conns' = conns
            /\ RestUnchanged
       /\ (resp'.handler = "ws-stream-end" /\ resp'.conn = k /\ ~conns[k].live) =>
            /\ conns' = [conns EXCEPT
                           ![k].out = Append(@, Out("audio-stream-closed", NoText))]
            /\ RestUnchanged]_vars

\* a chunk arrived after stream-end and was dropped without a reply
C26_Witness ==
  /\ resp.handler = "ws-stream-chunk" /\ resp.outcome = "ignored"
  /\ ~conns[resp.conn].live /\ ~conns[resp.conn].audio
  /\ conns[resp.conn].listeners = 1
  /\ conns[resp.conn].out[Len(conns[resp.conn].out)] = Out("audio-stream-closed", NoText)

\* C27: a chunk with data that arrives while the service's live connection
\* has been closed by the provider leaves the service with an open live
\* connection to which the audio was forwarded.
C27_ReopenDropped ==
  [][\A k \in 1..Len(conns) :
       (/\ resp'.handler = "ws-stream-chunk" /\ resp'.conn = k
        /\ resp'.outcome # "ignored"
        /\ conns[k].live /\ conns[k].dropped) =>
         /\ conns'[k].live /\ ~conns'[k].dropped
         /\ conns'[k].audio]_vars

\* a chunk was handed to a live connection the provider had closed
C27_Witness ==
  /\ resp.handler = "ws-stream-chunk" /\ resp.outcome = "sent-to-dropped"
  /\ conns[resp.conn].live /\ conns[resp.conn].dropped
  /\ ~conns[resp.conn].audio

\* the setup of a new socket connection is answered in this step
IsConnectReply == resp'.handler = "ws-connect" /\ budget' # budget

\* C28: a connect that names no session, an unknown session or a session
\* whose assistant is not found is answered with an error and nothing else:
\* no connection is set up, no orchestrator is created, nothing is persisted
\* and no session, history or running turn changes; and every connect that
\* is answered with an error leaves all of that as it is.
C28_ConnectRejected ==
  [][IsConnectReply =>
       /\ resp'.ap = "" => resp'.type = "error"
       /\ resp'.type = "error" =>
            /\ resp'.outcome \in {"error", "assistant-not-found"}
            /\ conns' = conns /\ orch' = orch /\ tasks' = tasks
            /\ sessions' = sessions /\ messages' = messages
            /\ calls' = calls /\ activeCalls' = activeCalls]_vars

\* while a connection of the session is open and has been greeted, a second
\* connect to the session was refused because its assistant was not found
C28_Witness ==
  /\ resp.handler = "ws-connect" /\ resp.outcome = "assistant-not-found"
  /\ resp.type = "error"
  /\ Len(conns) = 1 /\ conns[1].state = "open"
  /\ Len(orch) = 1 /\ Len(History(1)) = 2

\* C29: a socket message that is not a JSON object is answered with one
\* error message and changes nothing else: every history, the persisted
\* messages, the running turns and the status of every session stay as they
\* are and the connection stays open.
C29_Malformed ==
  [][resp'.handler = "ws-malformed" =>
       /\ resp'.type = "error"
       /\ conns' = [conns EXCEPT
                      ![resp'.conn].out = Append(@, Out("error", NoText))]
       /\ conns'[resp'.conn].state = "open"
       /\ orch' = orch /\ messages' = messages /\ tasks' = tasks
       /\ sessions' = sessions]_vars

\* text that is no JSON was answered with an error on a connection that
\* stayed open, its session still active
C29_Witness ==
  /\ resp.handler = "ws-malformed" /\ resp.status = "not-json"
  /\ resp.type = "error"
  /\ conns[resp.conn].state = "open"
  /\ conns[resp.conn].out[Len(conns[resp.conn].out)] = Out("error", NoText)
  /\ sessions[conns[resp.conn].session].status = "active"

\* C30: whenever no handler is suspended, the persisted messages of the
\* session of every orchestrator, in order, are the orchestrator's history
\* without the system prompt; and when a user-message 'hi' that found only
\* the system prompt is answered, the persisted messages of the session are
\* the user message and the reply, and the reply is the text of the
\* assistant-message delivered last.
C30_PersistedIsHistory ==
  /\ tasks = EmptyBag =>
       \A o \in 1..Len(orch) :
         SubSeq(History(o), 2, Len(History(o))) = Persisted(orch[o].sessionId)
  /\ (/\ resp.handler = "wsmsg" /\ resp.outcome = "ok"
      /\ resp.text = TxtHi /\ Len(resp.h0) = 1) =>
       /\ Persisted(orch[resp.orch].sessionId) =
             << Msg("user", TxtHi), Msg("assistant", resp.reply) >>
       /\ conns[resp.conn].out[Len(conns[resp.conn].out)] =
             Out("assistant-message", resp.reply)

\* one user-message 'hi' on a session without greeting was answered: the
\* session holds the user message and the reply that was sent
C30_Witness ==
  /\ resp.handler = "wsmsg" /\ resp.outcome = "ok" /\ resp.text = TxtHi
  /\ Persisted(orch[resp.orch].sessionId) =
        << Msg("user", TxtHi), Msg("assistant", TxtOk) >>
  /\ conns[resp.conn].out =
        << Out("connected", NoText), Out("assistant-message", TxtOk) >>

\* C31: an end applied to a Session that is ended already leaves the whole
\* row, ended_at included, as it is; a status callback that reports the
\* terminal status a Call already has leaves the whole row as it is.
C31_EndIdempotent ==
  [][/\ \A s \in 1..Len(sessions) :
          sessions[s].status = "ended" => sessions'[s] = sessions[s]
     /\ \A c \in DOMAIN calls :
          (calls[c].status \in Terminal /\ calls'[c].status = calls[c].status) =>
            calls'[c] = calls[c]]_vars

\* end-session, later the socket's close: the close leaves the row of the
\* ended session, with the time of the first end, as it is
C31_Witness ==
  \E k \in 1..Len(conns) :
    /\ conns[k].state = "closed"
    /\ Out("session-ended", NoText) \in {conns[k].out[i] : i \in 1..Len(conns[k].out)}
    /\ sessions[conns[k].session].status = "ended"
    /\ sessions[conns[k].session].ended_at < now

\* C32: the call-start webhook that the provider sends, with an explicit
\* assistant id, for an outbound call whose Call record makeCall has stored
\* is not answered at once with the apology and hangup unless the database
\* failed: it goes on to create the Session, register the orchestrator and
\* return the greeting and the gather, as for an inbound call.
C32_OutboundStart ==
  [][\A c \in DOMAIN calls :
       (/\ calls[c].direction = "outbound"
        /\ IsVoiceReply
        /\ resp'.callSid = c
        /\ resp'.ap \in AssistantIds) =>
         resp'.outcome = "error"]_vars

C32_Witness ==
  /\ resp.handler = "voice" /\ resp.outcome = "duplicate-call"
  /\ resp.ap \in AssistantIds
  /\ resp.callSid \in DOMAIN calls
  /\ calls[resp.callSid].direction = "outbound"
  /\ SessionsOf(resp.callSid) = {}
  /\ resp.callSid \notin DOMAIN activeCalls
  /\ resp.markup = generateTwiML(SayVoiceError, NoText, NoGather, TRUE)

\* C33: whatever stream-start and stream-end messages the connection has
\* handled before, a final transcript event with non-blank text starts exactly
\* one turn (so that at most one assistant-message answers it), and a final
\* transcript event with blank text starts none.
C33_OneTurnPerFinal ==
  [][(resp'.handler = "ws-transcript" /\ resp'.outcome = "final") =>
       IF Truthy(trim(resp'.text))
         THEN BagCardinality(tasks') = BagCardinality(tasks) + 1
         ELSE tasks' = tasks]_vars

\* after a second stream-start one final transcript has entered two turns
C33_Witness ==
  /\ resp.handler = "ws-transcript" /\ resp.outcome = "final"
  /\ resp.text = TxtHi
  /\ conns[resp.conn].listeners = 2
  /\ \E t \in Pending :
       /\ t.kind = "wsstream" /\ t.conn = resp.conn /\ t.text = TxtHi
       /\ CopiesIn(t, tasks) = 2

\* C34: a stream-start message is answered with exactly one message, either
\* audio-stream-ready or error.  It is audio-stream-ready only if the
\* transcription service then holds a live connection; when opening failed
\* the answer is error, no transcript listener has been added, and the
\* connection, the history and everything else are as they were.
C34_StreamStart ==
  [][resp'.handler = "ws-stream-start" =>
       LET k == resp'.conn IN
         /\ resp'.type \in {"audio-stream-ready", "error"}
         /\ conns'[k].out = Append(conns[k].out, Out(resp'.type, NoText))
         /\ resp'.type = "audio-stream-ready" =>
              /\ conns'[k].live /\ ~conns'[k].dropped
              /\ resp'.outcome = "ok"
         /\ resp'.outcome # "ok" =>
              /\ resp'.type = "error"
              /\ conns' = [conns EXCEPT ![k].out = Append(@, Out("error", NoText))]
              /\ RestUnchanged]_vars

\* opening the live connection failed on a connection that had none: an
\* error was sent and the connection is open without listener
C34_Witness ==
  /\ resp.handler = "ws-stream-start" /\ resp.outcome = "error"
  /\ conns[resp.conn].state = "open"
  /\ ~conns[resp.conn].live /\ conns[resp.conn].listeners = 0
  /\ conns[resp.conn].out[Len(conns[resp.conn].out)] = Out("error", NoText)

\* the orchestrators created for call c
OrchestratorsOf(c) ==
  {o \in 1..Len(orch) : sessions[orch[o].sessionId].call_id = c}

\* C35: a step gives a call id a registry entry only if the call id has none
\* and no orchestrator was ever created for it: an entry that exists is not
\* replaced by a repeated call-start, and an entry that was removed (end
\* phrase, terminal status) is not put back by any later webhook.
C35_RegisteredOnce ==
  [][\A c \in CallSids :
       (/\ c \in DOMAIN activeCalls'
        /\ c \in DOMAIN activeCalls => activeCalls'[c] # activeCalls[c]) =>
         /\ c \notin DOMAIN activeCalls
         /\ OrchestratorsOf(c) = {}]_vars

\* a call-start repeated after the entry was removed by a terminal status
\* was refused and the call id has no entry
C35_Witness ==
  /\ resp.handler = "voice" /\ resp.outcome = "duplicate-call"
  /\ resp.callSid \notin DOMAIN activeCalls
  /\ OrchestratorsOf(resp.callSid) # {}
  /\ calls[resp.callSid].status \in Terminal

\* the call ids on whose behalf this step runs: the call id of the request
\* answered and of every handler invocation that was started, resumed or
\* finished
ActorCalls ==
  {resp'.callSid} \cup
  {t.callSid : t \in {u \in BagToSet(tasks) \cup BagToSet(tasks') :
                        CopiesIn(u, tasks) # CopiesIn(u, tasks')}}

\* this step changes the registry entry, the Call status, a Session or the
\* history of an orchestrator of call c
TouchesCall(c) ==
  \/ (c \in DOMAIN activeCalls) # (c \in DOMAIN activeCalls')
  \/ c \in DOMAIN activeCalls /\ c \in DOMAIN activeCalls' /\
       activeCalls'[c] # activeCalls[c]
  \/ c \in DOMAIN calls /\ calls'[c].status # calls[c].status
  \/ \E s \in SessionsOf(c) : sessions'[s] # sessions[s]
  \/ \E o \in OrchestratorsOf(c) : orch'[o] # orch[o]
  \/ SelectSeq(messages', LAMBDA r : r.session_id \in SessionsOf(c))
       # SelectSeq(messages, LAMBDA r : r.session_id \in SessionsOf(c))

HasHangup(markup) == \E i \in 1..Len(markup) : markup[i].verb = "Hangup"

\* C37: when a call-start or speech-result handler that worked with the
\* registered orchestrator of a call answers with markup that hangs up (the
\* reply to an end phrase, the apology after a failed turn or a failed
\* greeting), the registry holds no entry for the call id.
C37_HangupUnregisters ==
  (/\ resp.handler \in {"voice", "gather"}
   /\ resp.orch # 0
   /\ HasHangup(resp.markup)) =>
    resp.callSid \notin DOMAIN activeCalls

\* a turn failed, the caller heard the apology and the hangup, and the call
\* id is still registered
C37_Witness ==
  /\ resp.handler = "gather" /\ resp.outcome = "generation-failed"
  /\ HasHangup(resp.markup)
  /\ resp.callSid \in DOMAIN activeCalls
  /\ activeCalls[resp.callSid] = resp.orch

\* C38: an executeTool invocation that created a record and ends has
\* finalized the record that was the most recent 'executing' row of its
\* organization and tool name: that row is now 'completed' or 'failed'.
C38_FinalizesMostRecent ==
  [][(resp'.handler = "executeTool" /\ resp'.id # 0) =>
       LET i == MostRecentExecuting(tool_executions, "o1", resp'.tool)
       IN /\ i # 0
          /\ tool_executions'[i].status \in {"completed", "failed"}]_vars

\* two overlapping invocations of one tool have both ended and both of
\* their records are still 'executing'
C38_Witness ==
  /\ tasks = EmptyBag
  /\ Len(tool_executions) = 2
  /\ \A i \in 1..2 : /\ tool_executions[i].tool_name = "lookup"
                       /\ tool_executions[i].status = "executing"
  /\ resp.handler = "executeTool" /\ resp.outcome = "rejected" /\ resp.id = 1

\* the password of a user is updated in this step on behalf of token tk
UpdatesPasswordFor(tk) ==
  \E t \in Pending :
    /\ t.kind = "password-reset" /\ t.token = tk /\ t.pc = "updateUser"
    /\ CopiesIn([t EXCEPT !.pc = "markUsed"], tasks') >
         CopiesIn([t EXCEPT !.pc = "markUsed"], tasks)

\* token tk has already changed a password: it is marked as used, or a call
\* that presented it has updated the password and is about to mark it
Spent(tk) ==
  \/ password_reset_tokens[tk].used_at # 0
  \/ \E t \in Pending :
       t.kind = "password-reset" /\ t.token = tk /\ t.pc \in {"markUsed", "revoke"}

\* C39: however the resetPassword calls interleave, a password is updated on
\* behalf of a token only if the token has not changed a password before, and
\* only by a call whose token exists and has not expired; a call that is
\* refused changes no password.
C39_TokenOnce ==
  [][/\ \A tk \in DOMAIN password_reset_tokens :
          UpdatesPasswordFor(tk) =>
            /\ ~Spent(tk)
            /\ ~(password_reset_tokens[tk].expires_at < now)
     /\ users' # users => \E tk \in DOMAIN password_reset_tokens : UpdatesPasswordFor(tk)
     /\ (resp'.handler = "password-reset" /\ resp'.http = 400) => users' = users]_vars

\* two calls that presented the same token with different passwords have
\* both updated the password: the later one has overwritten the earlier one
C39_Witness ==
  \E t \in Pending, u \in Pending :
    /\ t.kind = "password-reset" /\ u.kind = "password-reset"
    /\ t.token = "T1" /\ u.token = "T1"
    /\ t.text # u.text
    /\ t.pc \in {"markUsed", "revoke"} /\ u.pc \in {"markUsed", "revoke"}
    /\ users["u1"].password_hash = hashPassword(u.text)

====
